---- MODULE Spec2Model ----
(***************************************************************************)
(* A model of the myre pattern-composition engine (src/myre/pattern.py,    *)
(* src/myre/match.py): the Masker, the MatchAny union merger with its heap *)
(* and occupied-offset set, the MatchALL and MatchSeq combinators, and     *)
(* Base.finditer with its mask, deny check and re-wrapping of hits.        *)
(*                                                                         *)
(* Offsets are 0-based as in Python; texts are sequences of one-character  *)
(* strings, so the character at offset i of text s is s[i + 1].            *)
(***************************************************************************)
EXTENDS Integers, Sequences, FiniteSets, TLC

\* Longest text scanned.
MaxLen == 3

Alphabet == {"a", "b"}
Texts == UNION {[1..n -> Alphabet] : n \in 0..MaxLen}

Min(x, y) == IF x <= y THEN x ELSE y

\* Python's s[i:j] for non-negative i and j.
Slice(s, i, j) ==
    IF Min(i, Len(s)) >= Min(j, Len(s)) THEN <<>>
    ELSE SubSeq(s, Min(i, Len(s)) + 1, Min(j, Len(s)))

\* Python's str * n.
RECURSIVE Repeat(_, _)
Repeat(c, n) == IF n <= 0 THEN <<>> ELSE <<c>> \o Repeat(c, n - 1)

\* range(*span) as a set of offsets.
Range(s, e) == {x \in 0..(e - 1) : s <= x}

(***************************************************************************)
(* Primitive rules: compiled expressions of the underlying engine.         *)
(*   Lit(s)    the literal s (the empty literal matches at every offset)   *)
(*   Ahead(s)  the zero-width lookahead (?=s)                              *)
(*   MATCH_NONE  (?!.?), which never matches                               *)
(***************************************************************************)
Lit(s) == [cls |-> "re", kind |-> "lit", s |-> s]
Ahead(s) == [cls |-> "re", kind |-> "ahead", s |-> s]
MATCH_NONE == [cls |-> "re", kind |-> "none", s |-> <<>>]

ReMatch(p, string, s, e) ==
    [cls |-> "re.Match", start |-> s, end |-> e, re |-> p, string |-> string]

\* Whether the expression's text stands at offset i of the text cut at E.
MatchesAt(p, string, E, i) ==
    i + Len(p.s) <= E /\ SubSeq(string, i + 1, i + Len(p.s)) = p.s

\* The engine's left-to-right scan from offset i of the text cut at E:
\* after a non-empty match the scan resumes at its end, after an empty one
\* one offset further.
RECURSIVE PrimScan(_, _, _, _)
PrimScan(p, string, E, i) ==
    IF i > E \/ p.kind = "none" THEN <<>>
    ELSE IF ~MatchesAt(p, string, E, i) THEN PrimScan(p, string, E, i + 1)
    ELSE IF p.kind = "lit" /\ p.s # <<>>
         THEN <<ReMatch(p, string, i, i + Len(p.s))>> \o PrimScan(p, string, E, i + Len(p.s))
         ELSE <<ReMatch(p, string, i, i)>> \o PrimScan(p, string, E, i + 1)

\* A finditer that takes endpos but scans from the start of the text.
PrimFinditerFromStart(p, string, pos, endpos) ==
    PrimScan(p, string, Min(endpos, Len(string)), 0)

\* re.Pattern.finditer(string, pos, endpos): pos and endpos are clipped to
\* the text, and the expression sees the text as ending at endpos.
PrimFinditer(p, string, pos, endpos) ==
    IF Min(pos, Len(string)) > Min(endpos, Len(string)) THEN <<>>
    ELSE PrimScan(p, string, Min(endpos, Len(string)), Min(pos, Len(string)))

(***************************************************************************)
(* Matches.                                                                *)
(***************************************************************************)
MatchWithOffset(m) == [match |-> m, offset |-> <<0, 0>>]
HitStart(h) == h.match.start + h.offset[1]
HitEnd(h) == h.match.end + h.offset[2]

ComposeMatch(hits, re, string) ==
    [cls |-> "ComposeMatch", hits |-> hits, re |-> re, string |-> string]

\* start(0), end(0) of a re.Match or a ComposeMatch (ComposeMatch.span(0):
\* from the first hit's start to the last hit's end).
Start(m) == IF m.cls = "re.Match" THEN m.start ELSE HitStart(m.hits[1])
End(m) == IF m.cls = "re.Match" THEN m.end ELSE HitEnd(m.hits[Len(m.hits)])

\* group(0): the match's own text sliced by span(0).
Group0(m) == Slice(m.string, Start(m), End(m))

\* A re.Match with capture groups: groups[g] is group g, its name ("" when
\* it has none) and its span (<<-1, -1>> when it took no part in the match).
GroupedMatch(s, e, groups) == [cls |-> "re.Match", start |-> s, end |-> e, groups |-> groups]

\* re.Match.span(g) raises IndexError unless g is 0, the number of one of
\* the expression's groups, or the name of one.
HasGroup(m, g) ==
    IF g.kind = "int" THEN g.v \in 0..Len(m.groups)
    ELSE \E n \in 1..Len(m.groups) : m.groups[n].name = g.v

GroupNumber(m, g) ==
    IF g.kind = "int" THEN g.v
    ELSE CHOOSE n \in 1..Len(m.groups) : m.groups[n].name = g.v

ReSpan(m, g) ==
    IF GroupNumber(m, g) = 0 THEN <<m.start, m.end>> ELSE m.groups[GroupNumber(m, g)].span

\* MatchWithOffset.span(group)
HitSpan(h, g) == <<ReSpan(h.match, g)[1] + h.offset[1], ReSpan(h.match, g)[2] + h.offset[2]>>

IntGroup(n) == [kind |-> "int", v |-> n]
StrGroup(name) == [kind |-> "str", v |-> name]

\* The branch for a group name without "with suppress(IndexError)": the
\* first hit that lacks the name ends the query.
SpanNameStrict(st, self) ==
    IF st.hit > Len(self.hits) THEN [st EXCEPT !.pc = "raised"]
    ELSE IF HasGroup(self.hits[st.hit].match, st.group)
    THEN [st EXCEPT !.span = HitSpan(self.hits[st.hit], st.group), !.pc = "spanned"]
    ELSE [st EXCEPT !.pc = "raised"]

\* ComposeMatch.span, the branch for a group name: one turn of
\* "for hit in self._hits" around "with suppress(IndexError)".
SpanNameOp(st, self) ==
    IF st.hit > Len(self.hits) THEN [st EXCEPT !.pc = "raised"]
    ELSE IF HasGroup(self.hits[st.hit].match, st.group)
    THEN [st EXCEPT !.span = HitSpan(self.hits[st.hit], st.group), !.pc = "spanned"]
    ELSE [st EXCEPT !.hit = @ + 1]

\* The branch for a group number without "group -= start": the number is
\* never made local to the next hit.
SpanWhileKeep(st, self) ==
    IF st.hit > Len(self.hits) THEN [st EXCEPT !.pc = "raised"]
    ELSE IF ~(st.start < st.group.v) THEN [st EXCEPT !.hit = @ + 1]
    ELSE IF ~HasGroup(self.hits[st.hit].match, IntGroup(st.start + 1))
    THEN [st EXCEPT !.start = 0, !.hit = @ + 1]
    ELSE IF st.start + 1 = st.group.v
    THEN [st EXCEPT !.span = HitSpan(self.hits[st.hit], IntGroup(st.start + 1)),
                    !.pc = "spanned"]
    ELSE [st EXCEPT !.start = @ + 1]

\* ComposeMatch.span, the branch for a group number: one test of
\* "while start < group" inside "for hit in self._hits", and the body it
\* guards.
SpanWhileOp(st, self) ==
    IF st.hit > Len(self.hits) THEN [st EXCEPT !.pc = "raised"]
    ELSE IF ~(st.start < st.group.v) THEN [st EXCEPT !.hit = @ + 1]
    ELSE IF ~HasGroup(self.hits[st.hit].match, IntGroup(st.start + 1))
    THEN IF st.group.v - st.start = 0
         THEN [st EXCEPT !.group = IntGroup(0), !.pc = "raised"]
         ELSE [st EXCEPT !.group = IntGroup(st.group.v - st.start), !.start = 0,
                         !.hit = @ + 1]
    ELSE IF st.start + 1 = st.group.v
    THEN [st EXCEPT !.span = HitSpan(self.hits[st.hit], IntGroup(st.start + 1)),
                    !.pc = "spanned"]
    ELSE [st EXCEPT !.start = @ + 1]

\* Python's s[b:e] for indices that may be negative.
FromEnd(s, n) == IF n < 0 THEN IF Len(s) + n < 0 THEN 0 ELSE Len(s) + n ELSE n
PySlice(s, b, e) == Slice(s, FromEnd(s, b), FromEnd(s, e))

\* What start, end, group and span make of the span that span() returned.
Answer(method, self, sp) ==
    IF method = "start" THEN sp[1]
    ELSE IF method = "end" THEN sp[2]
    ELSE IF method = "group" THEN PySlice(self.string, sp[1], sp[2])
    ELSE sp

(***************************************************************************)
(* heapq on tuples (start, hit, follow, pattern).  Two tuples with equal   *)
(* start fall through to comparing the hits (or the iterators), which      *)
(* support no ordering: the comparison raises TypeError.                   *)
(***************************************************************************)
Cmp(x, y) == IF x.key < y.key THEN "lt" ELSE IF x.key > y.key THEN "ge" ELSE "raise"

Parent(p) == (p - 1) \div 2

\* heapq._siftdown; heap positions are 0-based, heap[p + 1] is position p.
RECURSIVE SiftDown(_, _, _, _)
SiftDown(heap, startpos, p, newitem) ==
    IF p <= startpos
    THEN [heap |-> [heap EXCEPT ![p + 1] = newitem], raised |-> FALSE]
    ELSE IF Cmp(newitem, heap[Parent(p) + 1]) = "raise"
    THEN [heap |-> heap, raised |-> TRUE]
    ELSE IF Cmp(newitem, heap[Parent(p) + 1]) = "lt"
    THEN SiftDown([heap EXCEPT ![p + 1] = heap[Parent(p) + 1]], startpos, Parent(p), newitem)
    ELSE [heap |-> [heap EXCEPT ![p + 1] = newitem], raised |-> FALSE]

HeapPush(heap, item) == SiftDown(Append(heap, item), 0, Len(heap), item)

\* heapq._siftup's comparison of the two children of position p.
ChildCmp(heap, p) ==
    IF 2 * p + 2 < Len(heap) THEN Cmp(heap[2 * p + 2], heap[2 * p + 3]) ELSE "lt"
SmallerChild(heap, p) == IF ChildCmp(heap, p) = "lt" THEN 2 * p + 1 ELSE 2 * p + 2

RECURSIVE SiftUp(_, _, _)
SiftUp(heap, p, newitem) ==
    IF 2 * p + 1 >= Len(heap)
    THEN SiftDown([heap EXCEPT ![p + 1] = newitem], 0, p, newitem)
    ELSE IF ChildCmp(heap, p) = "raise"
    THEN [heap |-> heap, raised |-> TRUE]
    ELSE SiftUp([heap EXCEPT ![p + 1] = heap[SmallerChild(heap, p) + 1]],
                SmallerChild(heap, p), newitem)

Popped(item, r) == [item |-> item, heap |-> r.heap, raised |-> r.raised]

\* A variant that takes the last entry of the list instead of the smallest.
HeapPopLast(heap) ==
    [item |-> heap[Len(heap)], heap |-> SubSeq(heap, 1, Len(heap) - 1), raised |-> FALSE]

HeapPop(heap) ==
    IF Len(heap) = 1
    THEN [item |-> heap[1], heap |-> <<>>, raised |-> FALSE]
    ELSE Popped(heap[1],
                SiftUp([SubSeq(heap, 1, Len(heap) - 1) EXCEPT ![1] = heap[Len(heap)]],
                       0, heap[Len(heap)]))

(***************************************************************************)
(* Composite rules (the dataclasses Base, MatchAny, MatchALL, MatchSeq).   *)
(* placeholder is the attribute the mask operator stores on its p_mask     *)
(* rule; "" stands for the attribute being absent.                         *)
(***************************************************************************)
Composite(cls, patterns) ==
    [cls |-> cls, patterns |-> patterns, p_mask |-> MATCH_NONE,
     p_deny |-> MATCH_NONE, placeholder |-> ""]
MatchAny(patterns) == Composite("MatchAny", patterns)
MatchALL(patterns) == Composite("MatchALL", patterns)
MatchSeq(patterns) == Composite("MatchSeq", patterns)
SplitMatch(patterns) == Composite("SplitMatch", patterns)

\* SplitMatch.__post_init__: the delimiter is the second pattern, if any.
Delimiter(self) == IF Len(self.patterns) >= 2 THEN self.patterns[2] ELSE MATCH_NONE

\* r ^ other
Xor(r, other) == [r EXCEPT !.p_deny = MatchAny(<<r.p_deny, other>>)]
\* r @ other and r @ (other, ph)
MatMul(r, other) == [r EXCEPT !.p_mask = MatchAny(<<r.p_mask, other>>)]
MatMulWith(r, other, ph) ==
    [r EXCEPT !.p_mask = [MatchAny(<<r.p_mask, other>>) EXCEPT !.placeholder = ph]]

\* The placeholder Base.finditer hands to the Masker.
Placeholder(rule) ==
    IF rule.p_mask # MATCH_NONE /\ rule.p_mask.cls # "re" /\ rule.p_mask.placeholder # ""
    THEN rule.p_mask.placeholder
    ELSE "."

(***************************************************************************)
(* Construction.  Rules are objects: heap[n] is the object with identity   *)
(* n, and a field holds either a compiled expression (immutable, so held   *)
(* by value) or a reference to an object.                                  *)
(***************************************************************************)
Ref(n) == [cls |-> "ref", id |-> n]
\* A str operand: the text of an expression, which re.compile turns into re.
Str(re) == [cls |-> "str", re |-> re]
\* A tuple (pattern, placeholder) operand.
Pair(pattern, ph) == [cls |-> "tuple", pattern |-> pattern, placeholder |-> ph]

\* The attributes that isinstance(x, PatternLike) looks for.
ProtocolMembers ==
    {"search", "match", "fullmatch", "findall", "finditer", "sub", "subn", "split",
     "flags", "groupindex", "pattern"}

\* The attributes of a re.Pattern and of an instance of a subclass of Base.
Members(cls) ==
    IF cls = "re"
    THEN ProtocolMembers \cup {"groups", "scanner"}
    ELSE IF cls \in {"MatchAny", "MatchALL", "MatchSeq", "SplitMatch"}
    THEN {"finditer", "findall", "search", "compile", "patterns", "p_mask", "p_deny"}
    ELSE {}

ClassOf(heap, x) == IF x.cls = "ref" THEN heap[x.id].cls ELSE x.cls

IsPatternLike(heap, x) == ProtocolMembers \subseteq Members(ClassOf(heap, x))

\* A _compile that returns whatever it is given.
CompilableAny(heap, x) == TRUE

\* _compile(pattern): whether it returns, and what.
Compilable(heap, x) == x.cls = "re" \/ x.cls = "str" \/ IsPatternLike(heap, x)
Compiled(x) == IF x.cls = "str" THEN x.re ELSE x

\* The outcome of a call: the heap after it, the rule it returned (0 when
\* it raised) and the exception it raised ("" when it returned).
Returned(heap, n) == [heap |-> heap, built |-> n, error |-> ""]
Raised(heap, e) == [heap |-> heap, built |-> 0, error |-> e]

NewRule(cls, patterns) ==
    [cls |-> cls, patterns |-> patterns, p_mask |-> MATCH_NONE, p_deny |-> MATCH_NONE,
     placeholder |-> ""]

\* cls.compile(*patterns) of MatchAny, MatchALL and MatchSeq.
ClassCompile(heap, cls, patterns) ==
    IF \E n \in 1..Len(patterns) : ~Compilable(heap, patterns[n])
    THEN Raised(heap, "TypeError")
    ELSE Returned(Append(heap, NewRule(cls, [n \in 1..Len(patterns) |-> Compiled(patterns[n])])),
                  Len(heap) + 1)

\* SplitMatch.compile without its test of the number of patterns.
SplitCompileAny(heap, patterns) == ClassCompile(heap, "SplitMatch", patterns)

\* SplitMatch.compile(*patterns)
SplitCompile(heap, patterns) ==
    IF Len(patterns) < 2 THEN Raised(heap, "ValueError")
    ELSE ClassCompile(heap, "SplitMatch", patterns)

\* The class compile() dispatches to ("" when mode equals no member of Mode).
ModeClass(mode) ==
    IF mode = "ANY" THEN "MatchAny"
    ELSE IF mode = "ALL" THEN "MatchALL"
    ELSE IF mode = "SEQ" THEN "MatchSeq"
    ELSE ""

\* compile(*patterns, mode=mode)
TopCompile(heap, patterns, mode) ==
    IF patterns = <<>> THEN Raised(heap, "ValueError")
    ELSE IF ModeClass(mode) = "" THEN Raised(heap, "ValueError")
    ELSE ClassCompile(heap, ModeClass(mode), patterns)

\* deepcopy(x): a compiled expression is its own copy; an object is copied
\* field by field into a new object.
RECURSIVE CopyValue(_, _)
RECURSIVE CopySeq(_, _)
Copied(heap, v) == [heap |-> heap, v |-> v]
CopyFields(ps, pm, pd, obj) ==
    Copied(Append(pd.heap, [obj EXCEPT !.patterns = ps.v, !.p_mask = pm.v, !.p_deny = pd.v]),
           Ref(Len(pd.heap) + 1))
CopyDeny(ps, pm, obj) == CopyFields(ps, pm, CopyValue(pm.heap, obj.p_deny), obj)
CopyMask(ps, obj) == CopyDeny(ps, CopyValue(ps.heap, obj.p_mask), obj)
CopyValue(heap, x) ==
    IF x.cls # "ref" THEN Copied(heap, x)
    ELSE CopyMask(CopySeq(heap, heap[x.id].patterns), heap[x.id])
CopyRest(first, rest) == Copied(rest.heap, <<first.v>> \o rest.v)
CopyTail(first, tail) == CopyRest(first, CopySeq(first.heap, tail))
CopySeq(heap, seq) ==
    IF seq = <<>> THEN Copied(heap, <<>>)
    ELSE CopyTail(CopyValue(heap, Head(seq)), Tail(seq))

\* "self.p_deny = MatchAny.compile(self.p_deny, other)" on the copy; when
\* compile raises, the copy is lost with the call.
SetDeny(heap, copy, made) ==
    IF made.error # "" THEN Raised(heap, made.error)
    ELSE Returned([made.heap EXCEPT ![copy.v.id].p_deny = Ref(made.built)], copy.v.id)

XorOn(heap, copy, other) ==
    SetDeny(heap, copy,
            ClassCompile(copy.heap, "MatchAny", <<copy.heap[copy.v.id].p_deny, other>>))

\* The ^ operator without the deepcopy: the deny rule is set on self.
XorInPlace(heap, self, other) == XorOn(heap, Copied(heap, self), other)

\* Base.__xor__
XorCall(heap, self, other) == XorOn(heap, CopyValue(heap, self), other)

\* "self.p_mask = MatchAny.compile(self.p_mask, mask_pattern)" on the copy,
\* and the placeholder stored on the new mask rule (ph is "" when other is
\* no pair).
SetMaskRule(heap, copy, made, ph) ==
    IF made.error # "" THEN Raised(heap, made.error)
    ELSE Returned([made.heap EXCEPT ![copy.v.id].p_mask = Ref(made.built),
                                    ![made.built].placeholder = ph],
                  copy.v.id)

MatMulOn(heap, copy, other) ==
    IF other.cls = "tuple"
    THEN SetMaskRule(heap, copy,
             ClassCompile(copy.heap, "MatchAny", <<copy.heap[copy.v.id].p_mask, other.pattern>>),
             other.placeholder)
    ELSE SetMaskRule(heap, copy,
             ClassCompile(copy.heap, "MatchAny", <<copy.heap[copy.v.id].p_mask, other>>), "")

\* Base.__matmul__
MatMulCall(heap, self, other) == MatMulOn(heap, CopyValue(heap, self), other)

\* Base.__and__, __or__, __add__, __truediv__
AndCall(heap, self, other) == ClassCompile(heap, "MatchALL", <<self, other>>)
OrCall(heap, self, other) == ClassCompile(heap, "MatchAny", <<self, other>>)
AddCall(heap, self, other) == ClassCompile(heap, "MatchSeq", <<self, other>>)
TrueDivCall(heap, self, other) == SplitCompile(heap, <<self, other>>)

\* The rule an object stands for, with the rules it refers to in place of
\* the references.
RECURSIVE ToRule(_, _)
ToRule(heap, x) ==
    IF x.cls # "ref" THEN x
    ELSE [cls |-> heap[x.id].cls,
          patterns |-> [n \in 1..Len(heap[x.id].patterns) |-> ToRule(heap, heap[x.id].patterns[n])],
          p_mask |-> ToRule(heap, heap[x.id].p_mask),
          p_deny |-> ToRule(heap, heap[x.id].p_deny),
          placeholder |-> heap[x.id].placeholder]

(***************************************************************************)
(* MatchAny._findnext, one step at a time.  A scan state holds the child   *)
(* iterators (follow: what each has left to yield, and whether it raises   *)
(* once that is used up), the heap pq, the occupied offsets indices, the   *)
(* pairs yielded so far (out), the seeding cursor i and the child cur      *)
(* whose iterator is advanced when the generator is resumed.               *)
(***************************************************************************)
\* A variant that takes the end of the span as one of its offsets.
OverlapsThroughEnd(h, indices) == \E x \in Range(Start(h), End(h) + 1) : x \in indices

\* A variant that skips a hit only when every one of its offsets is occupied.
OverlapsEvery(h, indices) ==
    Range(Start(h), End(h)) # {} /\ \A x \in Range(Start(h), End(h)) : x \in indices

\* any(i in indices for i in range(*hit.span()))
Overlaps(h, indices) == \E x \in Range(Start(h), End(h)) : x \in indices

\* while hit := next(follow, None): skip the hits that overlap indices.
RECURSIVE PullNext(_, _)
PullNext(f, indices) ==
    IF f.rest = <<>>
    THEN [found |-> FALSE, raised |-> f.raised, follow |-> f]
    ELSE IF Overlaps(Head(f.rest), indices)
    THEN PullNext([f EXCEPT !.rest = Tail(f.rest)], indices)
    ELSE [found |-> TRUE, raised |-> FALSE, follow |-> [f EXCEPT !.rest = Tail(f.rest)],
          hit |-> Head(f.rest)]

\* heapq.heappush(pq, (hit.start(), hit, follow, pattern))
Pushed(sc, h) == [sc EXCEPT !.pq = h.heap, !.pc = IF h.raised THEN "raised" ELSE @]

\* indices.update(range(*hit.span())) and the push of the hit pulled.
Accept(sc, c, r) ==
    IF r.raised THEN [sc EXCEPT !.follow[c] = r.follow, !.pc = "raised"]
    ELSE IF ~r.found THEN [sc EXCEPT !.follow[c] = r.follow]
    ELSE Pushed([sc EXCEPT !.follow[c] = r.follow,
                           !.indices = @ \cup Range(Start(r.hit), End(r.hit))],
                HeapPush(sc.pq, [key |-> Start(r.hit), hit |-> r.hit, child |-> c]))

\* The inner while loop on child c.
Advance(sc, c) == Accept(sc, c, PullNext(sc.follow[c], sc.indices))

Seeded(n, c, len) ==
    IF n.pc = "raised" THEN n
    ELSE [n EXCEPT !.i = c + 1, !.pc = IF c = len THEN "pop" ELSE "seed"]

\* One iteration of "for pattern in self.patterns".
SeedOp(sc) == Seeded(Advance(sc, sc.i), sc.i, Len(sc.follow))

Yielded(sc, patterns, r) ==
    IF r.raised THEN [sc EXCEPT !.pq = r.heap, !.pc = "raised"]
    ELSE [sc EXCEPT !.pq = r.heap,
                    !.out = Append(@, [hit |-> r.item.hit, pattern |-> patterns[r.item.child]]),
                    !.cur = r.item.child,
                    !.pc = "yield"]

\* "while pq": heappop and yield, or return when the heap is empty.
PopOp(sc, patterns) ==
    IF sc.pq = <<>> THEN [sc EXCEPT !.pc = "done"]
    ELSE Yielded(sc, patterns, HeapPop(sc.pq))

Resumed(n) == IF n.pc = "raised" THEN n ELSE [n EXCEPT !.pc = "pop"]

\* The generator resumed after its yield: advance the same child's iterator.
RefillOp(sc) == Resumed(Advance(sc, sc.cur))

RECURSIVE RunAny(_, _)
RunAny(sc, patterns) ==
    IF sc.pc = "seed" THEN RunAny(SeedOp(sc), patterns)
    ELSE IF sc.pc = "pop" THEN RunAny(PopOp(sc, patterns), patterns)
    ELSE IF sc.pc = "yield" THEN RunAny(RefillOp(sc), patterns)
    ELSE sc

(***************************************************************************)
(* MatchSeq._findnext: the loop body run on one pair of the merged stream. *)
(* st is [index, hits, emitted].                                           *)
(***************************************************************************)
AddHits(hits, m) ==
    IF m.cls = "re.Match" THEN Append(hits, MatchWithOffset(m)) ELSE hits \o m.hits

\* A variant that takes a hit of any child as the next one of the sequence.
SeqBodyAny(st, pair, self, string) ==
    [index |-> IF st.index + 1 = Len(self.patterns) THEN 0 ELSE st.index + 1,
     hits |-> IF st.index + 1 = Len(self.patterns) THEN <<>> ELSE AddHits(st.hits, pair.hit),
     emitted |-> IF st.index + 1 = Len(self.patterns)
                 THEN Append(st.emitted,
                             [hit |-> ComposeMatch(AddHits(st.hits, pair.hit), self, string),
                              pattern |-> self])
                 ELSE st.emitted]

\* "if index == len(self.patterns)": yield the composite and start over.
SeqEmit(index1, hits1, emitted, self, string) ==
    IF index1 = Len(self.patterns)
    THEN [index |-> 0, hits |-> <<>>,
          emitted |-> Append(emitted, [hit |-> ComposeMatch(hits1, self, string),
                                       pattern |-> self])]
    ELSE [index |-> index1, hits |-> hits1, emitted |-> emitted]

SeqBodyOp(st, pair, self, string) ==
    IF pair.pattern = self.patterns[st.index + 1]
    THEN SeqEmit(st.index + 1, AddHits(st.hits, pair.hit), st.emitted, self, string)
    ELSE SeqEmit(st.index, st.hits, st.emitted, self, string)

RECURSIVE SeqRun(_, _, _, _)
SeqRun(st, merged, self, string) ==
    IF merged = <<>> THEN st
    ELSE SeqRun(SeqBodyOp(st, Head(merged), self, string), Tail(merged), self, string)

(***************************************************************************)
(* MatchALL._findnext.                                                     *)
(***************************************************************************)
\* sorted(all_hits, key=lambda x: x.match.start()): a stable sort.
RECURSIVE Insert(_, _)
Insert(sorted, h) ==
    IF sorted = <<>> THEN <<h>>
    ELSE IF sorted[Len(sorted)].match.start <= h.match.start THEN Append(sorted, h)
    ELSE Append(Insert(SubSeq(sorted, 1, Len(sorted) - 1), h), sorted[Len(sorted)])

RECURSIVE SortedByStart(_)
SortedByStart(hs) ==
    IF hs = <<>> THEN <<>>
    ELSE Insert(SortedByStart(SubSeq(hs, 1, Len(hs) - 1)), hs[Len(hs)])

\* A variant that goes on to the next child when a child has no match.
AllTakeSkip(st, stream, npatterns) ==
    [st EXCEPT !.all_hits = IF stream.rest # <<>> THEN AddHits(@, Head(stream.rest)) ELSE @,
               !.k = @ + 1,
               !.pc = IF st.k = npatterns THEN "emit" ELSE "take"]

\* A variant that takes the last match of a child instead of the first.
AllTakeLast(st, stream, npatterns) ==
    IF stream.rest # <<>>
    THEN [st EXCEPT !.all_hits = AddHits(@, stream.rest[Len(stream.rest)]),
                    !.k = @ + 1,
                    !.pc = IF st.k = npatterns THEN "emit" ELSE "take"]
    ELSE [st EXCEPT !.pc = IF stream.raised THEN "raised" ELSE "done"]

\* One iteration of "for pattern in self.patterns" on the child's stream:
\* its first match is taken, and a child without a match ends the scan.
AllTakeOp(st, stream, npatterns) ==
    IF stream.rest # <<>>
    THEN [st EXCEPT !.all_hits = AddHits(@, Head(stream.rest)),
                    !.k = @ + 1,
                    !.pc = IF st.k = npatterns THEN "emit" ELSE "take"]
    ELSE [st EXCEPT !.pc = IF stream.raised THEN "raised" ELSE "done"]

AllEmitOp(st, self, string) ==
    [hit |-> ComposeMatch(SortedByStart(st.all_hits), self, string), pattern |-> self]

(***************************************************************************)
(* Masker.mask, one step at a time; st is [result, last_end].              *)
(***************************************************************************)
MaskBeginOp(string, pos) == [result |-> Slice(string, 0, pos), last_end |-> pos]

MaskLoopOp(st, match, placeholder, string) ==
    [result |-> st.result \o Slice(string, st.last_end, Start(match))
                          \o Repeat(placeholder, Len(Group0(match))),
     last_end |-> End(match)]

MaskEndOp(st, string, endpos) ==
    st.result \o Slice(string, st.last_end, endpos) \o Slice(string, endpos, Len(string))

RECURSIVE MaskLoop(_, _, _, _)
MaskLoop(st, matches, placeholder, string) ==
    IF matches = <<>> THEN st
    ELSE MaskLoop(MaskLoopOp(st, Head(matches), placeholder, string),
                  Tail(matches), placeholder, string)

(***************************************************************************)
(* Base.finditer and the _findnext of each class, as the whole stream a    *)
(* call yields: [rest |-> the matches, raised |-> whether the generator    *)
(* raises after yielding them].                                            *)
(***************************************************************************)
\* A variant that keeps the text the hit was found in.
WrapKeep(hit, self, string) ==
    IF hit.cls = "re.Match"
    THEN ComposeMatch(<<MatchWithOffset(hit)>>, self, hit.string)
    ELSE ComposeMatch(hit.hits, hit.re, hit.string)

\* A hit of _findnext re-wrapped by Base.finditer around the original text.
Wrap(hit, self, string) ==
    IF hit.cls = "re.Match"
    THEN ComposeMatch(<<MatchWithOffset(hit)>>, self, string)
    ELSE ComposeMatch(hit.hits, hit.re, string)

WrapAll(inner, self, string) ==
    [rest |-> [j \in 1..Len(inner.rest) |-> Wrap(inner.rest[j].hit, self, string)],
     raised |-> inner.raised]

RECURSIVE FindIter(_, _, _, _)

InitScan(patterns, string, pos, endpos) ==
    [follow |-> [c \in 1..Len(patterns) |-> FindIter(patterns[c], string, pos, endpos)],
     pq |-> <<>>, indices |-> {}, out |-> <<>>, i |-> 1, cur |-> 0,
     pc |-> IF patterns = <<>> THEN "pop" ELSE "seed"]

RECURSIVE AllRun(_, _, _, _, _)
AllRun(st, self, string, pos, endpos) ==
    IF st.pc = "take"
    THEN AllRun(AllTakeOp(st, FindIter(self.patterns[st.k], string, pos, endpos),
                          Len(self.patterns)),
                self, string, pos, endpos)
    ELSE IF st.pc = "emit"
         THEN [rest |-> <<AllEmitOp(st, self, string)>>, raised |-> FALSE]
         ELSE [rest |-> <<>>, raised |-> st.pc = "raised"]

AnyStream(sc) == [rest |-> sc.out, raised |-> sc.pc = "raised"]

(***************************************************************************)
(* SplitMatch._findnext.                                                   *)
(***************************************************************************)
\* segment_starts and segment_ends built from the delimiter matches.
SegmentStarts(pos, dms) == <<pos>> \o [j \in 1..Len(dms) |-> End(dms[j])]
SegmentEnds(endpos, dms) == [j \in 1..Len(dms) |-> Start(dms[j])] \o <<endpos>>

\* The (match, pattern) pairs yielded for the matches of one segment.
SplitPairs(ms, pattern) == [j \in 1..Len(ms) |-> [hit |-> ms[j], pattern |-> pattern]]

\* "for seg_start, seg_end in zip(segment_starts, segment_ends)" from the
\* k-th segment on; acc holds the pairs yielded so far.
RECURSIVE SplitSegments(_, _, _, _, _, _)
SplitInner(self, string, starts, ends, k, acc, stream) ==
    IF stream.raised
    THEN [rest |-> acc \o SplitPairs(stream.rest, self.patterns[1]), raised |-> TRUE]
    ELSE SplitSegments(self, string, starts, ends, k + 1,
                       acc \o SplitPairs(stream.rest, self.patterns[1]))

SplitSegments(self, string, starts, ends, k, acc) ==
    IF k > Len(starts) THEN [rest |-> acc, raised |-> FALSE]
    ELSE IF starts[k] >= ends[k]
    THEN SplitSegments(self, string, starts, ends, k + 1, acc)
    ELSE SplitInner(self, string, starts, ends, k, acc,
                    FindIter(self.patterns[1], string, starts[k], ends[k]))

\* delimiter_matches = list(self.delimiter.finditer(string, pos, endpos))
SplitRun(self, string, pos, endpos, delims) ==
    IF delims.raised THEN [rest |-> <<>>, raised |-> TRUE]
    ELSE SplitSegments(self, string, SegmentStarts(pos, delims.rest),
                       SegmentEnds(endpos, delims.rest), 1, <<>>)

SplitStream(self, string, pos, endpos) ==
    IF self.patterns = <<>> \/ Delimiter(self) = MATCH_NONE
    THEN [rest |-> <<>>, raised |-> FALSE]
    ELSE SplitRun(self, string, pos, endpos,
                  FindIter(Delimiter(self), string, pos, endpos))

SeqStream(sc, self, string) ==
    [rest |-> SeqRun([index |-> 0, hits |-> <<>>, emitted |-> <<>>],
                     sc.out, self, string).emitted,
     raised |-> sc.pc = "raised"]

\* self._findnext(string, pos, endpos)
FindNext(self, string, pos, endpos) ==
    IF self.cls = "MatchAny"
    THEN AnyStream(RunAny(InitScan(self.patterns, string, pos, endpos), self.patterns))
    ELSE IF self.cls = "SplitMatch" THEN SplitStream(self, string, pos, endpos)
    ELSE IF self.patterns = <<>> THEN [rest |-> <<>>, raised |-> FALSE]
    ELSE IF self.cls = "MatchALL"
    THEN AllRun([k |-> 1, all_hits |-> <<>>, pc |-> "take"], self, string, pos, endpos)
    ELSE SeqStream(RunAny(InitScan(self.patterns, string, pos, endpos), self.patterns),
                   self, string)

Masked(stream, placeholder, string, pos, endpos) ==
    [val |-> MaskEndOp(MaskLoop(MaskBeginOp(string, pos), stream.rest, placeholder, string),
                       string, endpos),
     raised |-> stream.raised]

\* Masker(pattern, placeholder).mask(string, pos, endpos)
Mask(pattern, placeholder, string, pos, endpos) ==
    Masked(FindIter(pattern, string, pos, endpos), placeholder, string, pos, endpos)

\* "if self.p_deny.search(masked, pos, endpos): return", then the loop over
\* self._findnext(masked, pos, endpos).
AfterDeny(rule, string, pos, endpos, masked, deny) ==
    IF deny.rest # <<>> THEN [rest |-> <<>>, raised |-> FALSE]
    ELSE IF deny.raised THEN [rest |-> <<>>, raised |-> TRUE]
    ELSE WrapAll(FindNext(rule, masked, pos, endpos), rule, string)

AfterMask(rule, string, pos, endpos, mk) ==
    IF mk.raised THEN [rest |-> <<>>, raised |-> TRUE]
    ELSE AfterDeny(rule, string, pos, endpos, mk.val,
                   FindIter(rule.p_deny, mk.val, pos, endpos))

FindIter(rule, string, pos, endpos) ==
    IF rule.cls = "re"
    THEN [rest |-> PrimFinditer(rule, string, pos, endpos), raised |-> FALSE]
    ELSE AfterMask(rule, string, pos, endpos,
                   Mask(rule.p_mask, Placeholder(rule), string, pos, endpos))

(***************************************************************************)
(* The state of one call: finditer(string, pos, endpos) on rule, or        *)
(* Masker(rule, placeholder).mask(string, pos, endpos).                    *)
(***************************************************************************)
VARIABLES
    rule,         \* self (for the Masker: its pattern)
    string,       \* the text the caller passed
    pos,
    endpos,
    placeholder,  \* Masker.placeholder
    pc,           \* where the call stands
    masked,       \* finditer's masked copy of string; Masker.mask's return value
    result,       \* Masker.mask: the pieces joined so far
    last_end,     \* Masker.mask
    it,           \* Masker.mask: the iterator over the pattern's matches
    follow,       \* MatchAny._findnext: the children's iterators
    pq,           \* MatchAny._findnext: the heap
    indices,      \* MatchAny._findnext: the occupied offsets
    out,          \* the (hit, pattern) pairs _findnext of MatchAny has yielded
    i,            \* cursor of "for pattern in self.patterns"
    cur,          \* child whose iterator the resumed generator advances
    index,        \* MatchSeq._findnext
    hits,         \* MatchSeq._findnext
    all_hits,     \* MatchALL._findnext
    res,          \* the matches finditer has yielded to its caller
    delimiter_matches,  \* SplitMatch._findnext
    segment_starts,     \* SplitMatch._findnext
    segment_ends,       \* SplitMatch._findnext
    seg,          \* SplitMatch._findnext: cursor of the loop over the segments
    inner,        \* SplitMatch._findnext: the iterator over the current segment
    match,        \* ComposeMatch.span: self
    method,       \* the method called on match: span, start, end or group
    requested,    \* the group the caller asked for
    group,        \* ComposeMatch.span: the parameter group, which the method reassigns
    start,        \* ComposeMatch.span
    hit,          \* ComposeMatch.span: cursor of "for hit in self._hits"
    span,         \* ComposeMatch.span: the span it returns
    ret,          \* what the method returned
    failed,       \* an earlier query on match raised
    objs,         \* the rule objects constructed so far, by identity
    call,         \* the last factory or operator call: its name and arguments
    built,        \* the identity of the rule the call returned, 0 when it raised
    error,        \* the exception the call raised, "" when it returned
    api,          \* the method called on rule: finditer, findall or search
    value,        \* what findall or search returned
    calls,        \* the earlier calls on rule: method, value, matches left unread
    peer          \* the frame of a second finditer generator on rule, suspended

vars == <<rule, string, pos, endpos, placeholder, pc, masked, result, last_end, it,
          follow, pq, indices, out, i, cur, index, hits, all_hits, res,
          delimiter_matches, segment_starts, segment_ends, seg, inner,
          match, method, requested, group, start, hit, span, ret, failed,
          objs, call, built, error, api, value, calls, peer>>

args == <<rule, string, pos, endpos, placeholder>>
maskLocals == <<result, last_end, it>>
anyLocals == <<follow, pq, indices, out, i, cur>>
seqLocals == <<index, hits>>
splitLocals == <<delimiter_matches, segment_starts, segment_ends, seg, inner>>
query == <<match, method, requested, failed>>
spanLocals == <<group, start, hit, span, ret>>
build == <<objs, call, built, error>>
caller == <<api, value, calls, peer>>

Sc == [follow |-> follow, pq |-> pq, indices |-> indices, out |-> out,
       i |-> i, cur |-> cur, pc |-> pc]

SetSc(n) ==
    /\ follow' = n.follow
    /\ pq' = n.pq
    /\ indices' = n.indices
    /\ out' = n.out
    /\ i' = n.i
    /\ cur' = n.cur
    /\ pc' = n.pc

\* The locals before the call has run a line.
Fresh ==
    /\ masked = <<>>
    /\ result = <<>>
    /\ last_end = 0
    /\ it = [rest |-> <<>>, raised |-> FALSE]
    /\ follow = <<>>
    /\ pq = <<>>
    /\ indices = {}
    /\ out = <<>>
    /\ i = 1
    /\ cur = 0
    /\ index = 0
    /\ hits = <<>>
    /\ all_hits = <<>>
    /\ res = <<>>
    /\ delimiter_matches = <<>>
    /\ segment_starts = <<>>
    /\ segment_ends = <<>>
    /\ seg = 1
    /\ inner = [rest |-> <<>>, raised |-> FALSE]

\* No query on a match is under way.
NoQuery ==
    /\ match = <<>>
    /\ method = "span"
    /\ requested = IntGroup(0)
    /\ group = IntGroup(0)
    /\ start = 0
    /\ hit = 1
    /\ span = <<>>
    /\ ret = <<>>
    /\ failed = FALSE

NoCall == [op |-> "", self |-> 0, args |-> <<>>]

\* The call has not returned to its caller.
Pending == [returned |-> FALSE]

\* finditer was called, once, and no other generator runs on the rule.
NoCaller ==
    /\ api = "finditer"
    /\ value = Pending
    /\ calls = <<>>
    /\ peer = <<>>

\* No rule has been constructed.
NoBuild ==
    /\ objs = <<>>
    /\ call = NoCall
    /\ built = 0
    /\ error = ""

(***************************************************************************)
(* Masker.mask                                                             *)
(***************************************************************************)
SetMask(st) ==
    /\ result' = st.result
    /\ last_end' = st.last_end

MaskBegin ==
    /\ pc = "mask"
    /\ SetMask(MaskBeginOp(string, pos))
    /\ it' = FindIter(rule, string, pos, endpos)
    /\ pc' = "maskloop"
    /\ UNCHANGED <<args, query, spanLocals, build, caller, splitLocals, masked, anyLocals, seqLocals, all_hits, res>>

MaskStep ==
    /\ pc = "maskloop"
    /\ it.rest # <<>>
    /\ SetMask(MaskLoopOp([result |-> result, last_end |-> last_end],
                          Head(it.rest), placeholder, string))
    /\ it' = [it EXCEPT !.rest = Tail(it.rest)]
    /\ UNCHANGED <<args, query, spanLocals, build, caller, splitLocals, pc, masked, anyLocals, seqLocals, all_hits, res>>

\* The pattern's iterator raises: mask raises.
MaskRaise ==
    /\ pc = "maskloop"
    /\ it.rest = <<>>
    /\ it.raised
    /\ pc' = "raised"
    /\ UNCHANGED <<args, query, spanLocals, build, caller, splitLocals, masked, maskLocals, anyLocals, seqLocals, all_hits, res>>

MaskEnd ==
    /\ pc = "maskloop"
    /\ it.rest = <<>>
    /\ ~it.raised
    /\ masked' = MaskEndOp([result |-> result, last_end |-> last_end], string, endpos)
    /\ pc' = "masked"
    /\ UNCHANGED <<args, query, spanLocals, build, caller, splitLocals, maskLocals, anyLocals, seqLocals, all_hits, res>>

(***************************************************************************)
(* Base.finditer up to its call of self._findnext: the mask, the deny      *)
(* check, and the first lines of the class's _findnext.                    *)
(***************************************************************************)
\* A variant that runs the scan whatever the deny rule finds.
BeginScanNoDeny(mval, deny) ==
    IF rule.cls = "MatchAny" \/ (rule.cls = "MatchSeq" /\ rule.patterns # <<>>)
    THEN SetSc(InitScan(rule.patterns, mval, pos, endpos))
    ELSE /\ pc' = IF rule.cls = "SplitMatch"
                  THEN IF rule.patterns = <<>> \/ Delimiter(rule) = MATCH_NONE
                       THEN "done" ELSE "split"
                  ELSE IF rule.patterns = <<>> THEN "done" ELSE "take"
         /\ UNCHANGED anyLocals

BeginScan(mval, deny) ==
    IF deny.rest = <<>> /\ deny.raised
    THEN /\ pc' = "raised"
         /\ UNCHANGED anyLocals
    ELSE IF deny.rest # <<>>
    THEN /\ pc' = "done"
         /\ UNCHANGED anyLocals
    ELSE IF rule.cls = "MatchAny" \/ (rule.cls = "MatchSeq" /\ rule.patterns # <<>>)
    THEN SetSc(InitScan(rule.patterns, mval, pos, endpos))
    ELSE /\ pc' = IF rule.cls = "SplitMatch"
                  THEN IF rule.patterns = <<>> \/ Delimiter(rule) = MATCH_NONE
                       THEN "done" ELSE "split"
                  ELSE IF rule.patterns = <<>> THEN "done" ELSE "take"
         /\ UNCHANGED anyLocals

\* A variant that searches the deny rule in the caller's text, not in the
\* masked copy.
BeginDenyUnmasked(mk) ==
    /\ masked' = mk.val
    /\ IF mk.raised
       THEN /\ pc' = "raised"
            /\ UNCHANGED anyLocals
       ELSE BeginScan(mk.val, FindIter(rule.p_deny, string, pos, endpos))

BeginMasked(mk) ==
    /\ masked' = mk.val
    /\ IF mk.raised
       THEN /\ pc' = "raised"
            /\ UNCHANGED anyLocals
       ELSE BeginScan(mk.val, FindIter(rule.p_deny, mk.val, pos, endpos))

Begin ==
    /\ pc = "begin"
    /\ BeginMasked(Mask(rule.p_mask, Placeholder(rule), string, pos, endpos))
    /\ UNCHANGED <<args, query, spanLocals, build, caller, splitLocals, maskLocals, seqLocals, all_hits, res>>

(***************************************************************************)
(* MatchAny._findnext                                                      *)
(***************************************************************************)
AnySeed ==
    /\ pc = "seed"
    /\ SetSc(SeedOp(Sc))
    /\ UNCHANGED <<args, query, spanLocals, build, caller, splitLocals, masked, maskLocals, seqLocals, all_hits, res>>

AnyPop ==
    /\ pc = "pop"
    /\ pq # <<>>
    /\ SetSc(PopOp(Sc, rule.patterns))
    /\ UNCHANGED <<args, query, spanLocals, build, caller, splitLocals, masked, maskLocals, seqLocals, all_hits, res>>

AnyReturn ==
    /\ pc = "pop"
    /\ pq = <<>>
    /\ SetSc(PopOp(Sc, rule.patterns))
    /\ UNCHANGED <<args, query, spanLocals, build, caller, splitLocals, masked, maskLocals, seqLocals, all_hits, res>>

AnyRefill ==
    /\ pc = "resume"
    /\ SetSc(RefillOp(Sc))
    /\ UNCHANGED <<args, query, spanLocals, build, caller, splitLocals, masked, maskLocals, seqLocals, all_hits, res>>

\* Base.finditer's loop body on the pair a MatchAny has just yielded.
Yield ==
    /\ pc = "yield"
    /\ rule.cls = "MatchAny"
    /\ res' = Append(res, Wrap(out[Len(out)].hit, rule, string))
    /\ pc' = "resume"
    /\ UNCHANGED <<args, query, spanLocals, build, caller, splitLocals, masked, maskLocals, anyLocals, seqLocals, all_hits>>

(***************************************************************************)
(* MatchSeq._findnext: its loop body on the pair the merger has just       *)
(* yielded, and Base.finditer's loop body on the composite it yields.      *)
(***************************************************************************)
SetSeq(st) ==
    /\ index' = st.index
    /\ hits' = st.hits
    /\ res' = IF st.emitted = <<>> THEN res
              ELSE Append(res, Wrap(st.emitted[1].hit, rule, string))

SeqBody ==
    /\ pc = "yield"
    /\ rule.cls = "MatchSeq"
    /\ SetSeq(SeqBodyOp([index |-> index, hits |-> hits, emitted |-> <<>>],
                        out[Len(out)], rule, masked))
    /\ pc' = "resume"
    /\ UNCHANGED <<args, query, spanLocals, build, caller, splitLocals, masked, maskLocals, anyLocals, all_hits>>

(***************************************************************************)
(* MatchALL._findnext                                                      *)
(***************************************************************************)
SetAll(st) ==
    /\ i' = st.k
    /\ all_hits' = st.all_hits
    /\ pc' = st.pc

AllTake ==
    /\ pc = "take"
    /\ SetAll(AllTakeOp([k |-> i, all_hits |-> all_hits, pc |-> pc],
                        FindIter(rule.patterns[i], masked, pos, endpos),
                        Len(rule.patterns)))
    /\ UNCHANGED <<args, query, spanLocals, build, caller, splitLocals, masked, maskLocals, follow, pq, indices, out, cur, seqLocals, res>>

SetEmit(pair) ==
    /\ out' = Append(out, pair)
    /\ res' = Append(res, Wrap(pair.hit, rule, string))

AllEmit ==
    /\ pc = "emit"
    /\ SetEmit(AllEmitOp([k |-> i, all_hits |-> all_hits, pc |-> pc], rule, masked))
    /\ pc' = "done"
    /\ UNCHANGED <<args, query, spanLocals, build, caller, splitLocals, masked, maskLocals, follow, pq, indices, i, cur, seqLocals, all_hits>>

(***************************************************************************)
(* SplitMatch._findnext, and Base.finditer's loop body on each pair it     *)
(* yields.                                                                 *)
(***************************************************************************)
SetSegments(delims) ==
    IF delims.raised
    THEN /\ pc' = "raised"
         /\ UNCHANGED <<delimiter_matches, segment_starts, segment_ends>>
    ELSE /\ delimiter_matches' = delims.rest
         /\ segment_starts' = SegmentStarts(pos, delims.rest)
         /\ segment_ends' = SegmentEnds(endpos, delims.rest)
         /\ pc' = "segment"

\* The delimiter matches are listed and the segment bounds built.
SplitBuild ==
    /\ pc = "split"
    /\ SetSegments(FindIter(Delimiter(rule), masked, pos, endpos))
    /\ UNCHANGED <<args, query, spanLocals, build, caller, masked, maskLocals, anyLocals, seqLocals, all_hits, res, seg, inner>>

\* "if seg_start >= seg_end: continue"
SplitSkip ==
    /\ pc = "segment"
    /\ seg <= Len(segment_starts)
    /\ segment_starts[seg] >= segment_ends[seg]
    /\ seg' = seg + 1
    /\ UNCHANGED <<args, query, spanLocals, build, caller, pc, masked, maskLocals, anyLocals, seqLocals, all_hits, res,
                   delimiter_matches, segment_starts, segment_ends, inner>>

\* pattern.finditer(string, seg_start, seg_end) is called on the segment.
SplitEnter ==
    /\ pc = "segment"
    /\ seg <= Len(segment_starts)
    /\ segment_starts[seg] < segment_ends[seg]
    /\ inner' = FindIter(rule.patterns[1], masked, segment_starts[seg], segment_ends[seg])
    /\ pc' = "match"
    /\ UNCHANGED <<args, query, spanLocals, build, caller, masked, maskLocals, anyLocals, seqLocals, all_hits, res,
                   delimiter_matches, segment_starts, segment_ends, seg>>

\* The segment's next match is yielded, and re-wrapped by Base.finditer.
SplitYield ==
    /\ pc = "match"
    /\ inner.rest # <<>>
    /\ out' = Append(out, [hit |-> Head(inner.rest), pattern |-> rule.patterns[1]])
    /\ res' = Append(res, Wrap(Head(inner.rest), rule, string))
    /\ inner' = [inner EXCEPT !.rest = Tail(inner.rest)]
    /\ UNCHANGED <<args, query, spanLocals, build, caller, pc, masked, maskLocals, follow, pq, indices, i, cur, seqLocals,
                   all_hits, delimiter_matches, segment_starts, segment_ends, seg>>

\* The segment's iterator is used up: on to the next segment, or the
\* iterator's exception ends the call.
SplitExhaust ==
    /\ pc = "match"
    /\ inner.rest = <<>>
    /\ pc' = IF inner.raised THEN "raised" ELSE "segment"
    /\ seg' = IF inner.raised THEN seg ELSE seg + 1
    /\ UNCHANGED <<args, query, spanLocals, build, caller, masked, maskLocals, anyLocals, seqLocals, all_hits, res,
                   delimiter_matches, segment_starts, segment_ends, inner>>

\* No segment is left: _findnext returns.
SplitReturn ==
    /\ pc = "segment"
    /\ seg > Len(segment_starts)
    /\ pc' = "done"
    /\ UNCHANGED <<args, query, spanLocals, build, caller, masked, maskLocals, anyLocals, seqLocals, all_hits, res, splitLocals>>

(***************************************************************************)
(* The calls checked: rules, texts and regions drawn from bounded sets.    *)
(* Composite children are built with the class constructors.               *)
(***************************************************************************)
La == Lit(<<"a">>)
Lb == Lit(<<"b">>)
Lab == Lit(<<"a", "b">>)
Lempty == Lit(<<>>)
Hb == Ahead(<<"b">>)
Hab == Ahead(<<"a", "b">>)

\* (pos, endpos); an endpos beyond every text stands for the default, sys.maxsize.
Regions == {<<0, MaxLen + 1>>, <<1, MaxLen + 1>>, <<0, 2>>}
Offsets == 0..(MaxLen + 1)

Tuples(S, n) == [1..n -> S]

MergeChildren == {La, Lb, Lab, Lempty, Hb, Hab, MatchALL(<<La, Lb>>)}
MergePatterns ==
    Tuples(MergeChildren, 0) \cup Tuples(MergeChildren, 1) \cup Tuples(MergeChildren, 2)
        \cup Tuples({La, Lempty, Hb}, 3)
        \cup {<<La, Lab, Hb>>, <<MatchAny(<<MatchALL(<<La, Lb>>), Hab>>)>>}
MergeRules == {Composite(c, ps) : c \in {"MatchAny", "MatchSeq"}, ps \in MergePatterns}

InitCall(rules) ==
    /\ rule \in rules
    /\ string \in Texts
    /\ \E rg \in Regions : pos = rg[1] /\ endpos = rg[2]
    /\ placeholder = "."
    /\ pc = "begin"
    /\ Fresh
    /\ NoQuery
    /\ NoBuild
    /\ NoCaller

InitMerge == InitCall(MergeRules)

NextMerge ==
    \/ Begin
    \/ AnySeed
    \/ AnyPop
    \/ AnyReturn
    \/ AnyRefill
    \/ Yield
    \/ SeqBody

SpecMerge == InitMerge /\ [][NextMerge]_vars

(***************************************************************************)
(* Properties of the union merger (MatchAny._findnext), checked under      *)
(* SpecMerge.                                                              *)
(***************************************************************************)
\* The whole stream child c yields on the text the scan runs on.
ChildStream(c) == FindIter(rule.patterns[c], masked, pos, endpos).rest

NonDecreasing(ms) == \A j, k \in 1..Len(ms) : j < k => Start(ms[j]) <= Start(ms[k])

OutHits == [j \in 1..Len(out) |-> out[j].hit]

\* The character positions a match covers.
Occupies(m) == {x \in 0..MaxLen : Start(m) <= x /\ x < End(m)}

\* The matches accepted so far: those queued and those yielded.
Accepted == [j \in 1..Len(pq) |-> pq[j].hit] \o OutHits

\* C1: in the stream a union merger yields, every two consecutive matches
\* m1, m2 satisfy m1.end(0) <= m2.start(0), zero-width matches included.
C1_NonOverlap ==
    \A j \in 1..(Len(out) - 1) : End(out[j].hit) <= Start(out[j + 1].hit)

\* C2: when every child's stream is ordered by start offset, the stream the
\* union merger yields is non-decreasing in start(0).
C2_Order ==
    (\A c \in 1..Len(rule.patterns) : NonDecreasing(ChildStream(c)))
        => NonDecreasing(OutHits)

\* Three matches yielded, the middle one from another child than its
\* neighbours: the refills of two children interleave.
C2_Witness ==
    /\ pc = "done"
    /\ \E j \in 1..(Len(out) - 2) :
          /\ out[j].pattern = out[j + 2].pattern
          /\ out[j].pattern # out[j + 1].pattern
          /\ Start(out[j].hit) < Start(out[j + 2].hit)

\* C3: while a MatchAny or MatchSeq scan runs, the accepted matches (queued
\* or yielded) cover pairwise disjoint sets of character positions, and the
\* occupied-offset set is the union of those sets.
C3_Disjoint ==
    pc # "raised" =>
        /\ \A j, k \in 1..Len(Accepted) :
              j # k => Occupies(Accepted[j]) \cap Occupies(Accepted[k]) = {}
        /\ indices = UNION {Occupies(Accepted[j]) : j \in 1..Len(Accepted)}

\* A MatchSeq scan that has yielded a match, holds another in the queue, and
\* has skipped a child match that overlapped an accepted one.
C3_Witness ==
    /\ rule.cls = "MatchSeq"
    /\ pc = "pop"
    /\ Len(out) >= 1
    /\ pq # <<>>
    /\ \E c \in 1..Len(rule.patterns) : \E j \in 1..Len(ChildStream(c)) :
          /\ Occupies(ChildStream(c)[j]) \cap indices # {}
          /\ \A k \in 1..Len(Accepted) : Accepted[k] # ChildStream(c)[j]

(***************************************************************************)
(* Properties of MatchSeq._findnext, checked under SpecMerge.              *)
(***************************************************************************)
\* C6: for a MatchSeq over (X, Y) whose call has returned: when every Y hit
\* of the merged stream precedes every X hit, nothing is yielded; when the
\* merged stream is one X hit followed by one non-overlapping Y hit, exactly
\* one composite is yielded.
C6_Sequence ==
    (rule.cls = "MatchSeq" /\ Len(rule.patterns) = 2 /\ pc = "done") =>
        /\ (\A j, k \in 1..Len(out) :
               (out[j].pattern = rule.patterns[2] /\ out[k].pattern = rule.patterns[1])
                   => j < k)
              => res = <<>>
        /\ (/\ Len(out) = 2
            /\ out[1].pattern = rule.patterns[1]
            /\ out[2].pattern = rule.patterns[2]
            /\ End(out[1].hit) <= Start(out[2].hit))
              => Len(res) = 1

\* A returned call on (X, Y), X # Y, whose merged stream was a Y hit and then
\* an X hit: nothing was yielded.
C6_Witness ==
    /\ rule.cls = "MatchSeq"
    /\ Len(rule.patterns) = 2
    /\ rule.patterns[1] # rule.patterns[2]
    /\ pc = "done"
    /\ Len(out) = 2
    /\ out[1].pattern = rule.patterns[2]
    /\ out[2].pattern = rule.patterns[1]
    /\ res = <<>>

\* The hits the merged-stream entries js[1..n] contribute to a composite.
RECURSIVE Contributed(_, _)
Contributed(js, n) ==
    IF n = 0 THEN <<>> ELSE AddHits(Contributed(js, n - 1), out[js[n]].hit)

\* C7 (as claimed): every composite a MatchSeq yields holds the hits of one
\* merged-stream match per declared child, in declared child order, and its
\* hits are in non-decreasing start order; a sequence still incomplete when
\* the merged stream ends is not yielded.
C7_NoPartial ==
    rule.cls = "MatchSeq" =>
        /\ \A r \in 1..Len(res) :
              /\ \E js \in [1..Len(rule.patterns) -> 1..Len(out)] :
                    /\ \A k \in 1..(Len(rule.patterns) - 1) : js[k] < js[k + 1]
                    /\ \A k \in 1..Len(rule.patterns) :
                          out[js[k]].pattern = rule.patterns[k]
                    /\ res[r].hits = Contributed(js, Len(rule.patterns))
              /\ \A a, b \in 1..Len(res[r].hits) :
                    a < b => HitStart(res[r].hits[a]) <= HitStart(res[r].hits[b])
        /\ index < Len(rule.patterns) \/ rule.patterns = <<>>

(***************************************************************************)
(* MatchALL.finditer.                                                      *)
(***************************************************************************)
AllChildren ==
    {La, Lb, Lab, Lempty, Hb, MatchALL(<<La, Lb>>), MatchAny(<<La, Lb>>),
     MatchAny(<<La, Lempty>>)}
AllPatterns ==
    Tuples(AllChildren, 0) \cup Tuples(AllChildren, 1) \cup Tuples(AllChildren, 2)
        \cup Tuples({La, Lb, Lab}, 3)
AllRules == {MatchALL(ps) : ps \in AllPatterns}

InitAll == InitCall(AllRules)

NextAll ==
    \/ Begin
    \/ AllTake
    \/ AllEmit

SpecAll == InitAll /\ [][NextAll]_vars

\* C4: a MatchALL yields nothing when some child has no match in the scanned
\* region, however many matches the other children have, and the call does
\* not raise unless a child's own scan raises.
C4_Completeness ==
    rule.cls = "MatchALL" =>
        /\ (\E c \in 1..Len(rule.patterns) :
               FindIter(rule.patterns[c], string, pos, endpos).rest = <<>>)
              => res = <<>>
        /\ pc = "raised" =>
              \E c \in 1..Len(rule.patterns) :
                  FindIter(rule.patterns[c], string, pos, endpos).raised

\* A returned call whose first child has two matches or more and whose
\* second child has none.
C4_Witness ==
    /\ rule.cls = "MatchALL"
    /\ pc = "done"
    /\ Len(rule.patterns) = 2
    /\ Len(FindIter(rule.patterns[1], string, pos, endpos).rest) >= 2
    /\ FindIter(rule.patterns[2], string, pos, endpos).rest = <<>>
    /\ ~FindIter(rule.patterns[2], string, pos, endpos).raised
    /\ all_hits # <<>>
    /\ res = <<>>

\* The hits of the first match of each of the first n children.
RECURSIVE FirstHits(_)
FirstHits(n) ==
    IF n = 0 THEN <<>>
    ELSE AddHits(FirstHits(n - 1), Head(ChildStream(n)))

Count(seq, x) == Cardinality({j \in 1..Len(seq) : seq[j] = x})

MaskRules ==
    {La, Lab, Lempty, Hb, MATCH_NONE, MatchAny(<<La, Lb>>), MatchAny(<<Lab, Hb>>),
     MatchAny(<<La, Lempty>>), MatchAny(<<MATCH_NONE, La>>)}

InitMask ==
    /\ rule \in MaskRules
    /\ string \in Texts
    /\ pos \in Offsets
    /\ endpos \in Offsets
    /\ placeholder \in {".", "a"}
    /\ pc = "mask"
    /\ Fresh
    /\ NoQuery
    /\ NoBuild
    /\ NoCaller

NextMask ==
    \/ MaskBegin
    \/ MaskStep
    \/ MaskRaise
    \/ MaskEnd

SpecMask == InitMask /\ [][NextMask]_vars

\* C8 (as claimed): for any text, mask rule, pos and endpos (endpos < pos
\* and zero-width matches included), the text mask returns is as long as
\* the text it was given.
C8_Length == pc = "masked" => Len(masked) = Len(string)

\* Whether offset x lies in the span of a match of the mask rule in the region.
InMatch(x) ==
    \E j \in 1..Len(FindIter(rule, string, pos, endpos).rest) :
        /\ Start(FindIter(rule, string, pos, endpos).rest[j]) <= x
        /\ x < End(FindIter(rule, string, pos, endpos).rest[j])

\* C9 (as claimed): in the text mask returns, every offset inside a span the
\* mask rule matched in the region holds the placeholder and every other
\* offset holds the character of the text given.
C9_Frame ==
    pc = "masked" =>
        \A x \in 0..(Len(string) - 1) :
            /\ x + 1 \in DOMAIN masked
            /\ masked[x + 1] = IF InMatch(x) THEN placeholder ELSE string[x + 1]

(***************************************************************************)
(* finditer on rules with a mask or a deny rule, nested or not.            *)
(***************************************************************************)
Ldot == Lit(<<".">>)

InnerRules ==
    {MatMul(MatchAny(<<Ldot>>), La),
     MatMulWith(MatchAny(<<Lb>>), La, "b"),
     Xor(MatchAny(<<La>>), Lb)}
Children == {La, Lb, Ldot} \cup InnerRules
Patterns == Tuples(Children, 1) \cup Tuples(Children, 2)
BaseRules == {Composite(c, ps) : c \in {"MatchAny", "MatchALL", "MatchSeq"}, ps \in Patterns}
MaskOperands == {La, Lab}
Rules ==
    BaseRules
        \cup {MatMul(r, m) : r \in BaseRules, m \in MaskOperands}
        \cup {MatMulWith(r, m, "b") : r \in BaseRules, m \in MaskOperands}
        \cup {Xor(r, Lb) : r \in BaseRules}

Init == InitCall(Rules)

Next ==
    \/ Begin
    \/ AnySeed
    \/ AnyPop
    \/ AnyReturn
    \/ AnyRefill
    \/ Yield
    \/ SeqBody
    \/ AllTake
    \/ AllEmit

Spec == Init /\ [][Next]_vars

\* C10: every match finditer yields, whatever masks the rule and its
\* children carry, has the caller's text as its string, and its group(0) is
\* that text from start(0) to end(0).
C10_OriginalText ==
    \A j \in 1..Len(res) :
        /\ res[j].string = string
        /\ Group0(res[j]) = Slice(string, Start(res[j]), End(res[j]))

\* A match yielded by a masked rule through a child that masks again: one of
\* its hits was found in a text that is neither the caller's nor the rule's
\* masked copy, and group(0) differs from the masked copy over its span.
C10_Witness ==
    /\ rule.p_mask # MATCH_NONE
    /\ masked # string
    /\ \E j \in 1..Len(res) :
          /\ Group0(res[j]) # Slice(masked, Start(res[j]), End(res[j]))
          /\ \E h \in 1..Len(res[j].hits) :
                /\ res[j].hits[h].match.string # string
                /\ res[j].hits[h].match.string # masked

(***************************************************************************)
(* The deny rule, checked under Spec.                                      *)
(***************************************************************************)
\* What the deny rule finds in the masked copy of the region.
DenyStream ==
    FindIter(rule.p_deny, Mask(rule.p_mask, Placeholder(rule), string, pos, endpos).val,
             pos, endpos)

\* What the same rule without its deny rule yields.
Undenied == FindIter([rule EXCEPT !.p_deny = MATCH_NONE], string, pos, endpos)

\* The hits and the text of each match of a stream (the rule a match refers
\* to is left out: it differs between a rule and its undenied twin).
Shape(ms) == [j \in 1..Len(ms) |-> [hits |-> ms[j].hits, string |-> ms[j].string]]

\* C11: when the deny rule of a rule has a match in the region, finditer
\* yields nothing; when it has none, a finished call has yielded what the
\* same rule without the deny rule yields.
C11_Deny ==
    rule.p_deny # MATCH_NONE =>
        /\ DenyStream.rest # <<>> => (res = <<>> /\ pc \in {"begin", "done"})
        /\ (DenyStream.rest = <<>> /\ pc \in {"done", "raised"}) =>
              /\ Shape(res) = Shape(Undenied.rest)
              /\ (pc = "raised") = Undenied.raised

\* A returned call that yielded nothing because of a denied occurrence,
\* while the rule without the deny rule has a match that ends before the
\* denied occurrence starts, with a character in between.
C11_Witness ==
    /\ rule.p_deny # MATCH_NONE
    /\ pc = "done"
    /\ res = <<>>
    /\ \E d \in 1..Len(DenyStream.rest) : \E j \in 1..Len(Undenied.rest) :
          End(Undenied.rest[j]) < Start(DenyStream.rest[d])

(***************************************************************************)
(* SplitMatch.finditer.                                                    *)
(***************************************************************************)
SplitContents == {La, Lab, Lempty, Hb, MatchAny(<<La, Lb>>), MatchAny(<<La, Lempty>>)}
SplitDelimiters ==
    {Lb, Lempty, Hb, MATCH_NONE, MatchAny(<<Lab, Hb>>), MatchAny(<<La, Lempty>>)}
SplitPatterns ==
    {<<>>} \cup {<<c>> : c \in SplitContents}
        \cup {<<c, d>> : c \in SplitContents, d \in SplitDelimiters}
        \cup {<<c, Lb, d>> : c \in {La, Lab}, d \in {La, Lempty}}
SplitRules == {SplitMatch(ps) : ps \in SplitPatterns}
SplitRegions == Regions \cup {<<1, 1>>}

InitSplit ==
    /\ rule \in SplitRules
    /\ string \in Texts
    /\ \E rg \in SplitRegions : pos = rg[1] /\ endpos = rg[2]
    /\ placeholder = "."
    /\ pc = "begin"
    /\ Fresh
    /\ NoQuery
    /\ NoBuild
    /\ NoCaller

NextSplit ==
    \/ Begin
    \/ SplitBuild
    \/ SplitSkip
    \/ SplitEnter
    \/ SplitYield
    \/ SplitExhaust
    \/ SplitReturn

SpecSplit == InitSplit /\ [][NextSplit]_vars

Spans(ms) == [j \in 1..Len(ms) |-> <<Start(ms[j]), End(ms[j])>>]

\* What the content rule and the delimiter rule find in the whole region.
ContentStream == FindIter(rule.patterns[1], string, pos, endpos)
DelimiterStream == FindIter(Delimiter(rule), string, pos, endpos)

\* C12 (as claimed): when the delimiter rule of a SplitMatch has no match in
\* the region, a finished call has yielded matches with exactly the spans,
\* in the same order, of the content rule's finditer on the same region.
C12_OneSegment ==
    (/\ rule.cls = "SplitMatch"
     /\ Len(rule.patterns) >= 2
     /\ DelimiterStream.rest = <<>>
     /\ ~DelimiterStream.raised
     /\ pc \in {"done", "raised"})
        => /\ Spans(res) = Spans(ContentStream.rest)
           /\ (pc = "raised") = ContentStream.raised

\* C13 (as claimed): every match a SplitMatch yields is a match of the
\* content rule inside one segment, shares no character position with a
\* delimiter match, and the matches are yielded in text order.
C13_Boundary ==
    rule.cls = "SplitMatch" =>
        /\ \A j \in 1..Len(res) :
              /\ \A d \in 1..Len(delimiter_matches) :
                    Occupies(res[j]) \cap Occupies(delimiter_matches[d]) = {}
              /\ \E k \in 1..Len(segment_starts) :
                    /\ Min(segment_starts[k], Len(string)) <= Start(res[j])
                    /\ End(res[j]) <= segment_ends[k]
                    /\ <<Start(res[j]), End(res[j])>> \in
                          {Spans(FindIter(rule.patterns[1], string, segment_starts[k],
                                          segment_ends[k]).rest)[x] :
                             x \in 1..Len(FindIter(rule.patterns[1], string,
                                                   segment_starts[k], segment_ends[k]).rest)}
        /\ \A j, k \in 1..Len(res) : j < k => Start(res[j]) <= Start(res[k])

(***************************************************************************)
(* The union merger against the alternation p1|...|pn of the underlying    *)
(* engine, checked under SpecMerge.                                        *)
(***************************************************************************)
\* Whether alternative p matches at offset i of the text cut at E; after an
\* empty match at i the engine accepts no second empty match there.
AltMatchesAt(p, text, E, at, advance) ==
    /\ p.kind # "none"
    /\ MatchesAt(p, text, E, at)
    /\ advance => (p.kind = "lit" /\ p.s # <<>>)

\* The first alternative from the k-th on that matches at offset i (0: none).
RECURSIVE FirstAlt(_, _, _, _, _, _)
FirstAlt(ps, text, E, at, advance, k) ==
    IF k > Len(ps) THEN 0
    ELSE IF AltMatchesAt(ps[k], text, E, at, advance) THEN k
    ELSE FirstAlt(ps, text, E, at, advance, k + 1)

AltEnd(p, at) == IF p.kind = "lit" THEN at + Len(p.s) ELSE at

\* The spans the alternation yields scanning from the offset.
RECURSIVE AltScan(_, _, _, _, _)
AltTaken(ps, text, E, at, k) ==
    IF k = 0 THEN AltScan(ps, text, E, at + 1, FALSE)
    ELSE <<<<at, AltEnd(ps[k], at)>>>>
            \o AltScan(ps, text, E, AltEnd(ps[k], at), AltEnd(ps[k], at) = at)

AltScan(ps, text, E, at, advance) ==
    IF at > E THEN <<>>
    ELSE AltTaken(ps, text, E, at, FirstAlt(ps, text, E, at, advance, 1))

AltFinditer(ps, text, lo, hi) ==
    IF Min(lo, Len(text)) > Min(hi, Len(text)) THEN <<>>
    ELSE AltScan(ps, text, Min(hi, Len(text)), Min(lo, Len(text)), FALSE)

\* C16 (as claimed): a MatchAny over primitive rules p1, ..., pn yields the
\* spans the alternation p1|...|pn yields on the same text and region.
C16_Alternation ==
    (/\ rule.cls = "MatchAny"
     /\ rule.patterns # <<>>
     /\ \A c \in 1..Len(rule.patterns) : rule.patterns[c].cls = "re"
     /\ pc \in {"done", "raised"})
        => /\ pc = "done"
           /\ Spans(res) = AltFinditer(rule.patterns, string, pos, endpos)

(***************************************************************************)
(* The matches that are queried: up to MaxHits hits, laid side by side in  *)
(* the text, each with zero to two groups, named or not, one of which may  *)
(* have taken no part in the match.                                        *)
(***************************************************************************)
MaxHits == 3

Methods == {"span", "start", "end", "group"}

Taken(name) == [name |-> name, taken |-> TRUE]
NotTaken(name) == [name |-> name, taken |-> FALSE]

GroupShapes ==
    {<<>>, <<Taken("")>>, <<Taken("x")>>, <<Taken(""), Taken("y")>>,
     <<Taken("x"), NotTaken("")>>}

HitWidth == 4

\* The hit at place n (0-based) whose groups have the given shape: group g
\* spans the g-th character of the hit.
HitAt(n, shape) ==
    MatchWithOffset(GroupedMatch(HitWidth * n, HitWidth * n + HitWidth - 1,
        [g \in 1..Len(shape) |->
            [name |-> shape[g].name,
             span |-> IF shape[g].taken
                      THEN <<HitWidth * n + g - 1, HitWidth * n + g>>
                      ELSE <<-1, -1>>]]))

SpanText(n) == [c \in 1..(HitWidth * n) |-> IF c % 2 = 1 THEN "a" ELSE "b"]

ShapeTuples == UNION {[1..n -> GroupShapes] : n \in 1..MaxHits}

ComposeMatches ==
    {ComposeMatch([n \in 1..Len(t) |-> HitAt(n - 1, t[n])], MATCH_NONE, SpanText(Len(t)))
        : t \in ShapeTuples}

Requests ==
    {IntGroup(n) : n \in (0 - 1)..(2 * MaxHits + 1)} \cup {StrGroup(name) : name \in {"x", "y", "z"}}


(***************************************************************************)
(* ComposeMatch.span, start, end and group                                 *)
(***************************************************************************)
St == [group |-> group, start |-> start, hit |-> hit, span |-> span, pc |-> pc]

SetSt(n) ==
    /\ group' = n.group
    /\ start' = n.start
    /\ hit' = n.hit
    /\ span' = n.span
    /\ pc' = n.pc

finditerState == <<args, masked, maskLocals, anyLocals, seqLocals, all_hits, res,
                   splitLocals>>

\* "if group == 0": from the first hit's start to the last hit's end.
SpanZero ==
    /\ pc = "call"
    /\ group.kind = "int"
    /\ group.v = 0
    /\ span' = <<Start(match), End(match)>>
    /\ pc' = "spanned"
    /\ UNCHANGED <<finditerState, build, caller, query, group, start, hit, ret>>

\* The isinstance tests; "start = 0" of the branch for a number.
SpanBranch ==
    /\ pc = "call"
    /\ ~(group.kind = "int" /\ group.v = 0)
    /\ pc' = IF group.kind = "str" THEN "name" ELSE "while"
    /\ start' = 0
    /\ hit' = 1
    /\ UNCHANGED <<finditerState, build, caller, query, group, span, ret>>

SpanName ==
    /\ pc = "name"
    /\ SetSt(SpanNameOp(St, match))
    /\ UNCHANGED <<finditerState, build, caller, query, ret>>

SpanWhile ==
    /\ pc = "while"
    /\ SetSt(SpanWhileOp(St, match))
    /\ UNCHANGED <<finditerState, build, caller, query, ret>>

\* span returns the span; start, end and group take their part of it
\* (group calls start and end, which each call span with the same group).
SpanReturn ==
    /\ pc = "spanned"
    /\ ret' = Answer(method, match, span)
    /\ pc' = "returned"
    /\ UNCHANGED <<finditerState, build, caller, query, group, start, hit, span>>

\* The caller, whether the last query returned or raised, asks the same
\* match again.
Query ==
    /\ pc \in {"returned", "raised"}
    /\ \E g \in Requests : requested' = g /\ group' = g
    /\ method' \in Methods
    /\ failed' = (failed \/ pc = "raised")
    /\ start' = 0
    /\ hit' = 1
    /\ span' = <<>>
    /\ ret' = <<>>
    /\ pc' = "call"
    /\ UNCHANGED <<finditerState, build, caller, match>>

InitSpan ==
    /\ match \in ComposeMatches
    /\ method \in Methods
    /\ requested \in Requests
    /\ group = requested
    /\ start = 0
    /\ hit = 1
    /\ span = <<>>
    /\ ret = <<>>
    /\ failed = FALSE
    /\ pc = "call"
    /\ rule = MATCH_NONE
    /\ string = <<>>
    /\ pos = 0
    /\ endpos = 0
    /\ placeholder = "."
    /\ Fresh
    /\ NoBuild
    /\ NoCaller

NextSpan ==
    \/ SpanZero
    \/ SpanBranch
    \/ SpanName
    \/ SpanWhile
    \/ SpanReturn
    \/ Query

SpecSpan == InitSpan /\ [][NextSpan]_vars

\* k1 + ... + kn over the first n hits of a match.
RECURSIVE GroupsBefore(_, _)
GroupsBefore(cm, n) ==
    IF n = 0 THEN 0 ELSE GroupsBefore(cm, n - 1) + Len(cm.hits[n].match.groups)

TotalGroups(cm) == GroupsBefore(cm, Len(cm.hits))

\* The hit whose block of group numbers contains n.
BlockOf(cm, n) ==
    CHOOSE j \in 1..Len(cm.hits) : GroupsBefore(cm, j - 1) < n /\ n <= GroupsBefore(cm, j)

Finished == pc \in {"returned", "raised"}

\* C17: span(n) for a positive number n returns the span of local group
\* n - (k1 + ... + k(j-1)) of the hit j whose block contains n, and raises
\* IndexError exactly when n exceeds k1 + ... + kn or n is negative.
C17_NumberedGroup ==
    (Finished /\ method = "span" /\ requested.kind = "int" /\ requested.v # 0)
        => IF requested.v < 0 \/ requested.v > TotalGroups(match)
           THEN pc = "raised"
           ELSE /\ pc = "returned"
                /\ ret = match.hits[BlockOf(match, requested.v)].match.groups[
                            requested.v - GroupsBefore(match, BlockOf(match, requested.v) - 1)].span

\* C17 witness: a group of a later hit, behind a hit with no group, was found.
C17_Witness ==
    /\ pc = "returned"
    /\ method = "span"
    /\ requested.kind = "int"
    /\ requested.v > 1
    /\ Len(match.hits[1].match.groups) = 0
    /\ BlockOf(match, requested.v) = 3
    /\ ret = match.hits[3].match.groups[2].span

Defines(h, name) == \E g \in 1..Len(h.match.groups) : h.match.groups[g].name = name

FirstDefining(cm, name) ==
    CHOOSE j \in 1..Len(cm.hits) :
        /\ Defines(cm.hits[j], name)
        /\ \A k \in 1..(j - 1) : ~Defines(cm.hits[k], name)

NamedSpan(cm, name) ==
    cm.hits[FirstDefining(cm, name)].match.groups[
        CHOOSE g \in 1..Len(cm.hits[FirstDefining(cm, name)].match.groups) :
            cm.hits[FirstDefining(cm, name)].match.groups[g].name = name].span

\* A finished query by name answered from the first hit that defines the
\* name, or raised because no hit defines it.
NamedAnswer ==
    (Finished /\ requested.kind = "str")
        => IF \E j \in 1..Len(match.hits) : Defines(match.hits[j], requested.v)
           THEN /\ pc = "returned"
                /\ ret = Answer(method, match, NamedSpan(match, requested.v))
           ELSE pc = "raised"

\* C18: span, start, end and group with a group name answer from the first
\* hit that defines the name and raise IndexError when no hit defines it,
\* whether or not an earlier query on the match raised; no query, failed or
\* not, alters the match.
C18_NamedGroup == []NamedAnswer /\ [][match' = match]_vars

\* C18 witness: after a query that raised, a name that two hits define is
\* answered from the first of them.
C18_Witness ==
    /\ pc = "returned"
    /\ failed
    /\ requested.kind = "str"
    /\ Len(match.hits) >= 2
    /\ ~Defines(match.hits[1], requested.v)
    /\ \E j \in 2..Len(match.hits) : \E k \in (j + 1)..Len(match.hits) :
          /\ Defines(match.hits[j], requested.v)
          /\ Defines(match.hits[k], requested.v)
          /\ ret = Answer(method, match, HitSpan(match.hits[j], requested))

(***************************************************************************)
(* Construction: the factories and the operators, called in any order on   *)
(* expressions and on the rules built so far.                              *)
(***************************************************************************)
MaxObjs == 2

\* The members of Mode, and None for a value that is no member.
Modes == {"ANY", "ALL", "SEQ", "None"}

\* An int: a value that is no expression and no rule.
Num == [cls |-> "int"]

\* What a caller can pass as a rule: the text of an expression, a compiled
\* expression, a rule built earlier, an int.
Operands(heap) == {Str(La), La, Num} \cup {Ref(n) : n \in DOMAIN heap}

\* What a caller can pass to @: a rule, or a (pattern, placeholder) pair.
MatMulOperands(heap) == Operands(heap) \cup {Pair(Str(La), " "), Pair(Num, " ")}

OperandTuples(heap) ==
    {<<>>} \cup {<<x>> : x \in Operands(heap)}
           \cup {<<x, y>> : x \in Operands(heap), y \in Operands(heap)}

SetOutcome(o) ==
    /\ objs' = o.heap
    /\ built' = o.built
    /\ error' = o.error

idle == <<finditerState, pc, query, spanLocals, caller>>

Compile ==
    /\ Len(objs) < MaxObjs
    /\ \E ps \in OperandTuples(objs) : \E mode \in Modes :
          /\ call' = [op |-> "compile", self |-> 0, args |-> ps, mode |-> mode]
          /\ SetOutcome(TopCompile(objs, ps, mode))
    /\ UNCHANGED idle

MatchAnyCompile ==
    /\ Len(objs) < MaxObjs
    /\ \E ps \in OperandTuples(objs) :
          /\ call' = [op |-> "MatchAny.compile", self |-> 0, args |-> ps]
          /\ SetOutcome(ClassCompile(objs, "MatchAny", ps))
    /\ UNCHANGED idle

MatchALLCompile ==
    /\ Len(objs) < MaxObjs
    /\ \E ps \in OperandTuples(objs) :
          /\ call' = [op |-> "MatchALL.compile", self |-> 0, args |-> ps]
          /\ SetOutcome(ClassCompile(objs, "MatchALL", ps))
    /\ UNCHANGED idle

MatchSeqCompile ==
    /\ Len(objs) < MaxObjs
    /\ \E ps \in OperandTuples(objs) :
          /\ call' = [op |-> "MatchSeq.compile", self |-> 0, args |-> ps]
          /\ SetOutcome(ClassCompile(objs, "MatchSeq", ps))
    /\ UNCHANGED idle

SplitMatchCompile ==
    /\ Len(objs) < MaxObjs
    /\ \E ps \in OperandTuples(objs) :
          /\ call' = [op |-> "SplitMatch.compile", self |-> 0, args |-> ps]
          /\ SetOutcome(SplitCompile(objs, ps))
    /\ UNCHANGED idle

CallAnd ==
    /\ Len(objs) < MaxObjs
    /\ \E n \in DOMAIN objs : \E other \in Operands(objs) :
          /\ call' = [op |-> "&", self |-> n, args |-> <<other>>]
          /\ SetOutcome(AndCall(objs, Ref(n), other))
    /\ UNCHANGED idle

CallOr ==
    /\ Len(objs) < MaxObjs
    /\ \E n \in DOMAIN objs : \E other \in Operands(objs) :
          /\ call' = [op |-> "|", self |-> n, args |-> <<other>>]
          /\ SetOutcome(OrCall(objs, Ref(n), other))
    /\ UNCHANGED idle

CallAdd ==
    /\ Len(objs) < MaxObjs
    /\ \E n \in DOMAIN objs : \E other \in Operands(objs) :
          /\ call' = [op |-> "+", self |-> n, args |-> <<other>>]
          /\ SetOutcome(AddCall(objs, Ref(n), other))
    /\ UNCHANGED idle

CallTrueDiv ==
    /\ Len(objs) < MaxObjs
    /\ \E n \in DOMAIN objs : \E other \in Operands(objs) :
          /\ call' = [op |-> "/", self |-> n, args |-> <<other>>]
          /\ SetOutcome(TrueDivCall(objs, Ref(n), other))
    /\ UNCHANGED idle

CallXor ==
    /\ Len(objs) < MaxObjs
    /\ \E n \in DOMAIN objs : \E other \in Operands(objs) :
          /\ call' = [op |-> "^", self |-> n, args |-> <<other>>]
          /\ SetOutcome(XorCall(objs, Ref(n), other))
    /\ UNCHANGED idle

CallMatMul ==
    /\ Len(objs) < MaxObjs
    /\ \E n \in DOMAIN objs : \E other \in MatMulOperands(objs) :
          /\ call' = [op |-> "@", self |-> n, args |-> <<other>>]
          /\ SetOutcome(MatMulCall(objs, Ref(n), other))
    /\ UNCHANGED idle

InitBuild ==
    /\ NoBuild
    /\ NoCaller
    /\ NoQuery
    /\ Fresh
    /\ pc = "build"
    /\ rule = MATCH_NONE
    /\ string = <<>>
    /\ pos = 0
    /\ endpos = 0
    /\ placeholder = "."

NextBuild ==
    \/ Compile
    \/ MatchAnyCompile
    \/ MatchALLCompile
    \/ MatchSeqCompile
    \/ SplitMatchCompile
    \/ CallAnd
    \/ CallOr
    \/ CallAdd
    \/ CallTrueDiv
    \/ CallXor
    \/ CallMatMul

SpecBuild == InitBuild /\ [][NextBuild]_vars

Factories == {"compile", "MatchAny.compile", "MatchALL.compile", "MatchSeq.compile"}
Operators == {"|", "&", "+", "/", "^", "@"}

\* An operand that is the text of an expression, a compiled expression or a
\* rule built by one of the factories or operators.
RuleOperand(x) == x.cls \in {"str", "re", "ref"}

\* C14 (as claimed): every application of a composition operator to a rule
\* returns a rule that did not exist before, and every rule that existed
\* before stands for the same rule after (same children, mask rule,
\* placeholder and deny rule).
C14_NewRule ==
    [][(call'.op \in Operators /\ RuleOperand(call'.args[1]))
          => /\ error' = ""
             /\ built' \in DOMAIN objs' \ DOMAIN objs
             /\ \A n \in DOMAIN objs : ToRule(objs', Ref(n)) = ToRule(objs, Ref(n))]_vars

\* C15 (as claimed): a call whose operands are expressions and rules built
\* by the factories does not raise the invalid-rule error (TypeError).
C15_Accepted ==
    (call.op # "" /\ \A n \in 1..Len(call.args) : RuleOperand(call.args[n]))
        => error # "TypeError"

\* C19 (as claimed): compile, MatchAny.compile, MatchALL.compile and
\* MatchSeq.compile called with no rule raise the empty-composition error
\* (ValueError) and return no rule.
C19_EmptyRaises ==
    (call.op \in Factories /\ call.args = <<>>) => (error = "ValueError" /\ built = 0)

\* C20: SplitMatch.compile called with no rule or one rule raises an error
\* and returns no rule, and no SplitMatch rule with fewer than two children
\* is ever produced.
C20_SplitArity ==
    /\ (call.op = "SplitMatch.compile" /\ Len(call.args) < 2) => (error # "" /\ built = 0)
    /\ \A n \in DOMAIN objs : objs[n].cls = "SplitMatch" => Len(objs[n].patterns) >= 2

\* C20 witness: SplitMatch.compile was called with one rule, raised, and
\* left the rules as they were.
C20_Witness ==
    /\ call.op = "SplitMatch.compile"
    /\ Len(call.args) = 1
    /\ error = "ValueError"
    /\ built = 0
    /\ objs # <<>>
    /\ \A n \in DOMAIN objs : objs[n].cls # "SplitMatch"

(***************************************************************************)
(* The span of the composite a MatchALL yields, checked under SpecAll.     *)
(***************************************************************************)
\* C25 (as claimed): the composite match a MatchALL yields covers every one
\* of its hits: span(0)[0] <= h.start(0) and h.end(0) <= span(0)[1] for each
\* hit h, also when one child's first match lies inside another's.
C25_Covers ==
    rule.cls = "MatchALL" =>
        \A r \in 1..Len(res) : \A n \in 1..Len(res[r].hits) :
            /\ Start(res[r]) <= HitStart(res[r].hits[n])
            /\ HitEnd(res[r].hits[n]) <= End(res[r])

(***************************************************************************)
(* Candidates with equal start offsets in the union merger, checked under  *)
(* SpecMerge.                                                              *)
(***************************************************************************)
Primitive(ps) == \A c \in 1..Len(ps) : ps[c].cls = "re"

\* C29 (as claimed): when candidates of different children share a start
\* offset, the union merger does not fail and yields them in the order of
\* their children.
C29_Ties ==
    (rule.cls = "MatchAny" /\ Primitive(rule.patterns)) =>
        /\ pc # "raised"
        /\ \A j, k \in 1..Len(out) :
              (j < k /\ Start(out[j].hit) = Start(out[k].hit)) =>
                  \E a, b \in 1..Len(rule.patterns) :
                      /\ a <= b
                      /\ out[j].pattern = rule.patterns[a]
                      /\ out[k].pattern = rule.patterns[b]

(***************************************************************************)
(* Which child matches the union merger skips, checked under SpecMerge on  *)
(* the steps that advance a child's iterator (AnySeed, AnyRefill).         *)
(***************************************************************************)
\* The child whose iterator the step advances, and the number of matches
\* the step takes from it.
StepChild == IF pc = "seed" THEN i ELSE cur
Gone(c) == Len(follow[c].rest) - Len(follow'[c].rest)

\* The step ended by accepting the last match it took (pushing it raised or
\* not).
Took == Len(pq') > Len(pq) \/ pc' = "raised"

Offs(h) == Range(Start(h), End(h))

AdvanceStep ==
    /\ pc \in {"seed", "resume"}
    /\ rule.cls \in {"MatchAny", "MatchSeq"}
    /\ Primitive(rule.patterns)

\* C30 (as claimed): a child match is skipped exactly when every offset of its
\* span is in the occupied-offset set; a match only some of whose offsets
\* are occupied is accepted.
C30_EveryOffset ==
    [][AdvanceStep =>
          \A n \in 1..Gone(StepChild) :
              IF n < Gone(StepChild) \/ ~Took
              THEN Offs(follow[StepChild].rest[n]) \subseteq indices
              ELSE ~(Offs(follow[StepChild].rest[n]) \subseteq indices)]_vars

\* C30 (amended): a child match is skipped exactly when at least one offset
\* of its span is in the occupied-offset set, and accepted when none is.
C30_AnyOffset ==
    [][AdvanceStep =>
          \A n \in 1..Gone(StepChild) :
              IF n < Gone(StepChild) \/ ~Took
              THEN Offs(follow[StepChild].rest[n]) \cap indices # {}
              ELSE Offs(follow[StepChild].rest[n]) \cap indices = {}]_vars

\* C30 witness: a returned call in which a child's match was skipped with
\* some of its offsets occupied and some free.
C30_Witness ==
    /\ rule.cls = "MatchAny"
    /\ Primitive(rule.patterns)
    /\ pc = "done"
    /\ \E c \in 1..Len(rule.patterns) : \E n \in 1..Len(ChildStream(c)) :
          /\ \A j \in 1..Len(out) : out[j].hit # ChildStream(c)[n]
          /\ Offs(ChildStream(c)[n]) \cap indices # {}
          /\ ~(Offs(ChildStream(c)[n]) \subseteq indices)

(***************************************************************************)
(* MatchSeq._findnext on a hit that is not the expected child's, checked   *)
(* under SpecMerge on the step that runs the loop body (SeqBody).  The     *)
(* expected child is child index + 1 (children are numbered from 1, index  *)
(* counts from 0); cur is the child whose hit the merger has just yielded. *)
(***************************************************************************)
\* C27 (as claimed): when the merged stream delivers a hit of a child other
\* than the expected one while a sequence is partly accumulated, the
\* accumulated hits are discarded and child 0 is expected again.
C27_Reset ==
    [][(pc = "yield" /\ rule.cls = "MatchSeq" /\ index > 0 /\ cur # index + 1)
          => (index' = 0 /\ hits' = <<>>)]_vars

\* C28 (as claimed): a hit of a child that sits later in the declared order
\* than the expected child leaves the expected-child index and the
\* accumulated hits unchanged.
C28_Ignored ==
    [][(pc = "yield" /\ rule.cls = "MatchSeq" /\ cur > index + 1)
          => (index' = index /\ hits' = hits)]_vars

(***************************************************************************)
(* The factory compile and the rejection of operands that are no rule,     *)
(* checked under SpecBuild.                                                 *)
(***************************************************************************)
\* The class the claim gives for a member of Mode.
ClaimedClass(mode) ==
    CASE mode = "ANY" -> "MatchAny"
      [] mode = "ALL" -> "MatchALL"
      [] mode = "SEQ" -> "MatchSeq"

\* C26 (as claimed): compile(*rules, mode) given at least one rule returns a
\* MatchAny for Mode.ANY (the default), a MatchALL for Mode.ALL and a
\* MatchSeq for Mode.SEQ, holding exactly the given rules in the given
\* order, and raises an error for any other mode value.
C26_Factory ==
    (/\ call.op = "compile"
     /\ call.args # <<>>
     /\ \A n \in 1..Len(call.args) : RuleOperand(call.args[n]))
        => IF call.mode \in {"ANY", "ALL", "SEQ"}
           THEN /\ error = ""
                /\ built \in DOMAIN objs
                /\ objs[built].cls = ClaimedClass(call.mode)
                /\ objs[built].patterns = [n \in 1..Len(call.args) |-> Compiled(call.args[n])]
           ELSE error # "" /\ built = 0

\* The rule an operand names: the pattern of a (pattern, placeholder) pair,
\* the operand itself otherwise.
RuleOf(x) == IF x.cls = "tuple" THEN x.pattern ELSE x

\* Neither the text of an expression, nor a compiled expression, nor a
\* value that isinstance takes for a PatternLike.
Invalid(heap, x) == x.cls \notin {"str", "re"} /\ ~IsPatternLike(heap, x)

HasInvalid(heap, c) ==
    c.op # "" /\ \E n \in 1..Len(c.args) : Invalid(heap, RuleOf(c.args[n]))

\* A value finditer can be called on.
CanScan(heap, x) == "finditer" \in Members(ClassOf(heap, x))

\* No rule holds a child, a mask rule or a deny rule that finditer would
\* fail on.
HeapScans ==
    \A n \in DOMAIN objs :
        /\ \A k \in 1..Len(objs[n].patterns) : CanScan(objs, objs[n].patterns[k])
        /\ CanScan(objs, objs[n].p_mask)
        /\ CanScan(objs, objs[n].p_deny)

\* The call fails a test of its arguments that is made before any operand
\* is compiled: the number of rules of SplitMatch.compile, the mode of
\* compile.
FailsEarlier(c) ==
    \/ c.op = "SplitMatch.compile" /\ Len(c.args) < 2
    \/ c.op = "compile" /\ c.mode \notin {"ANY", "ALL", "SEQ"}

\* C21 (as claimed): a call with an operand that is neither a pattern
\* string, a compiled re.Pattern nor a PatternLike raises TypeError, returns
\* no rule and leaves every rule as it was, and no rule ever holds a value
\* finditer would fail on.
C21_TypeError ==
    /\ []HeapScans
    /\ [][HasInvalid(objs, call')
            => (error' = "TypeError" /\ built' = 0 /\ objs' = objs)]_vars

\* C21 (amended): such a call raises at composition time, returns no rule
\* and leaves every rule as it was; the error is TypeError, except that it
\* is ValueError when the call fails the test of the number of rules
\* (SplitMatch.compile) or of the mode (compile) that is made first; and no
\* rule ever holds a value finditer would fail on.
C21_Rejected ==
    /\ []HeapScans
    /\ [][HasInvalid(objs, call')
            => /\ error' = (IF FailsEarlier(call') THEN "ValueError" ELSE "TypeError")
               /\ built' = 0
               /\ objs' = objs]_vars

\* C21 witness: the operator ^ was called on a rule with an int, raised
\* TypeError and returned nothing.
C21_Witness ==
    /\ call.op = "^"
    /\ call.self \in DOMAIN objs
    /\ call.args = <<Num>>
    /\ error = "TypeError"
    /\ built = 0

(***************************************************************************)
(* The region of a call: finditer of the four composite classes on one     *)
(* universe of rules, texts and regions, some of which begin past the end  *)
(* of the text.                                                            *)
(***************************************************************************)
RegionChildren == {La, Lab, Lempty, Hb}
RegionPatterns == Tuples(RegionChildren, 1) \cup Tuples(RegionChildren, 2)
RegionRules ==
    {Composite(c, ps) : c \in {"MatchAny", "MatchALL", "MatchSeq"}, ps \in RegionPatterns}
        \cup {SplitMatch(<<c, d>>) : c \in {La, Lab, Lempty}, d \in {Lb, Lempty, Hb}}
        \cup {MatMul(MatchAny(<<La>>), Lb), Xor(MatchAny(<<La>>), Lb)}
CallRegions == SplitRegions \cup {<<2, MaxLen + 1>>}

InitRegion ==
    /\ rule \in RegionRules
    /\ string \in Texts
    /\ \E rg \in CallRegions : pos = rg[1] /\ endpos = rg[2]
    /\ placeholder = "."
    /\ pc = "begin"
    /\ Fresh
    /\ NoQuery
    /\ NoBuild
    /\ NoCaller

NextRegion ==
    \/ Begin
    \/ AnySeed
    \/ AnyPop
    \/ AnyReturn
    \/ AnyRefill
    \/ Yield
    \/ SeqBody
    \/ AllTake
    \/ AllEmit
    \/ SplitBuild
    \/ SplitSkip
    \/ SplitEnter
    \/ SplitYield
    \/ SplitExhaust
    \/ SplitReturn

SpecRegion == InitRegion /\ [][NextRegion]_vars

\* max(offset, 0): re takes a negative pos or endpos for 0.
FromZero(offset) == IF offset < 0 THEN 0 ELSE offset

\* C24 (as claimed): every match yielded by finditer(text, pos, endpos) of a
\* MatchAny, MatchALL, MatchSeq or SplitMatch lies inside the region:
\* pos <= start(0) and end(0) <= endpos.
C24_InRegion ==
    \A j \in 1..Len(res) : pos <= Start(res[j]) /\ End(res[j]) <= endpos

\* C24 (amended): every match yielded lies inside the region as re clips
\* it: min(pos, len(text)) <= start(0) and end(0) <= max(endpos, 0).
C24_InClippedRegion ==
    \A j \in 1..Len(res) :
        /\ Min(pos, Len(string)) <= Start(res[j])
        /\ End(res[j]) <= FromZero(endpos)

\* A finished call that yielded a match although pos lies past the end of
\* the text.
PastEnd == pc = "done" /\ pos > Len(string) /\ res # <<>>

\* C24 witness: a finished call of a SplitMatch that yielded a match at or
\* after pos, on a text where the rule has an occurrence that begins before
\* pos.
C24_Witness ==
    /\ pc = "done"
    /\ rule.cls = "SplitMatch"
    /\ 0 < pos
    /\ pos <= Len(string)
    /\ res # <<>>
    /\ FindIter(rule, string, 0, endpos).rest # <<>>
    /\ Start(FindIter(rule, string, 0, endpos).rest[1]) < pos

(***************************************************************************)
(* findall and search, which run finditer, and calls made one after the    *)
(* other on the same rule.                                                 *)
(***************************************************************************)
\* Python's None.
None == [cls |-> "None"]

\* A findall that stops at the first match.
FindallFirst(ms) == [j \in 1..Min(1, Len(ms)) |-> Group0(ms[j])]

\* Base.findall: "[match.group() for match in self.finditer(...)]" on the
\* matches finditer yielded.
FindallOp(ms) == [j \in 1..Len(ms) |-> Group0(ms[j])]

\* Base.search: "next(self.finditer(...), None)" on the matches finditer
\* yielded before search stopped reading.
SearchOp(ms) == IF ms = <<>> THEN None ELSE ms[1]

Returns(v) == [returned |-> TRUE, raised |-> FALSE, v |-> v]
Raises == [returned |-> TRUE, raised |-> TRUE, v |-> None]

MaxCalls == 2
Apis == {"finditer", "findall", "search"}
ApiRules ==
    {MatchAny(ps) : ps \in Tuples({La, Lb, Lempty}, 2)}
        \cup {MatchALL(<<La, Lb>>), MatchALL(<<Lb, Lempty>>),
              MatchSeq(<<La, Lb>>), MatchSeq(<<Lempty, La>>),
              SplitMatch(<<La, Lb>>), SplitMatch(<<Lempty, Lb>>),
              MatMul(MatchAny(<<La>>), Lb), Xor(MatchAny(<<La>>), Lb)}

InitApi ==
    /\ rule \in ApiRules
    /\ string \in Texts
    /\ \E rg \in Regions : pos = rg[1] /\ endpos = rg[2]
    /\ placeholder = "."
    /\ pc = "begin"
    /\ Fresh
    /\ NoQuery
    /\ NoBuild
    /\ api \in Apis
    /\ value = Pending
    /\ calls = <<>>
    /\ peer = <<>>

\* The generator is advanced: by findall and by a reader of finditer until
\* they return, by search until it has one match.
Reading == ~value.returned /\ (api = "search" => res = <<>>)

\* findall returns its list when finditer is exhausted.
FindallReturn ==
    /\ api = "findall"
    /\ ~value.returned
    /\ pc = "done"
    /\ value' = Returns(FindallOp(res))
    /\ UNCHANGED <<finditerState, pc, query, spanLocals, build, api, calls, peer>>

\* search returns the first match, or None when finditer is exhausted, and
\* drops the generator.
SearchReturn ==
    /\ api = "search"
    /\ ~value.returned
    /\ res # <<>> \/ pc = "done"
    /\ value' = Returns(SearchOp(res))
    /\ UNCHANGED <<finditerState, pc, query, spanLocals, build, api, calls, peer>>

\* The reader of finditer stops after a match, or at the end, with the
\* matches it has read.
ReaderStop ==
    /\ api = "finditer"
    /\ ~value.returned
    /\ res # <<>> \/ pc = "done"
    /\ value' = Returns(res)
    /\ UNCHANGED <<finditerState, pc, query, spanLocals, build, api, calls, peer>>

\* An exception raised inside the generator reaches the caller.
CallRaise ==
    /\ ~value.returned
    /\ pc = "raised"
    /\ value' = Raises
    /\ UNCHANGED <<finditerState, pc, query, spanLocals, build, api, calls, peer>>

SetFresh ==
    /\ masked' = <<>>
    /\ result' = <<>>
    /\ last_end' = 0
    /\ it' = [rest |-> <<>>, raised |-> FALSE]
    /\ follow' = <<>>
    /\ pq' = <<>>
    /\ indices' = {}
    /\ out' = <<>>
    /\ i' = 1
    /\ cur' = 0
    /\ index' = 0
    /\ hits' = <<>>
    /\ all_hits' = <<>>
    /\ res' = <<>>
    /\ delimiter_matches' = <<>>
    /\ segment_starts' = <<>>
    /\ segment_ends' = <<>>
    /\ seg' = 1
    /\ inner' = [rest |-> <<>>, raised |-> FALSE]

\* A later call on the same rule: its generator starts with locals of its
\* own, whatever the generator of the earlier call was left at.
CallAgain ==
    /\ value.returned
    /\ Len(calls) + 1 < MaxCalls
    /\ calls' = Append(calls, [api |-> api, value |-> value,
                               left |-> pc \notin {"done", "raised"}])
    /\ api' \in Apis
    /\ value' = Pending
    /\ pc' = "begin"
    /\ SetFresh
    /\ UNCHANGED <<args, query, spanLocals, build, peer>>

NextApi ==
    \/ Reading /\ Begin
    \/ Reading /\ AnySeed
    \/ Reading /\ AnyPop
    \/ Reading /\ AnyReturn
    \/ Reading /\ AnyRefill
    \/ Reading /\ Yield
    \/ Reading /\ SeqBody
    \/ Reading /\ AllTake
    \/ Reading /\ AllEmit
    \/ Reading /\ SplitBuild
    \/ Reading /\ SplitSkip
    \/ Reading /\ SplitEnter
    \/ Reading /\ SplitYield
    \/ Reading /\ SplitExhaust
    \/ Reading /\ SplitReturn
    \/ FindallReturn
    \/ SearchReturn
    \/ ReaderStop
    \/ CallRaise
    \/ CallAgain

SpecApi == InitApi /\ [][NextApi]_vars

\* What finditer(text, pos, endpos) yields when it is read to the end.
Alone == FindIter(rule, string, pos, endpos)

\* C23: findall returns [m.group(0) for m in finditer(text, pos, endpos)] in
\* the same order; search returns the first match of finditer(text, pos,
\* endpos), or None when finditer yields nothing; and this holds of a call
\* made after an earlier call on the rule dropped its generator after the
\* first match.
C23_Derived ==
    value.returned =>
        /\ (api = "findall" /\ ~Alone.raised) =>
              /\ ~value.raised
              /\ value.v = [j \in 1..Len(Alone.rest) |-> Group0(Alone.rest[j])]
        /\ (api = "search" /\ Alone.rest # <<>>) =>
              (~value.raised /\ value.v = Alone.rest[1])
        /\ (api = "search" /\ Alone.rest = <<>> /\ ~Alone.raised) =>
              (~value.raised /\ value.v = None)

\* C23 witness: search returned a match and left its generator with matches
\* unread, and a findall called afterwards on the same rule returned two
\* substrings or more.
C23_Witness ==
    /\ calls # <<>>
    /\ calls[1].api = "search"
    /\ calls[1].left
    /\ calls[1].value.v # None
    /\ api = "findall"
    /\ value.returned
    /\ ~value.raised
    /\ Len(value.v) >= 2

(***************************************************************************)
(* Two finditer generators on one rule, advanced in any interleaving.  The *)
(* locals of the generator that runs are the variables of the call; those  *)
(* of the other one are kept in peer while it is suspended.                *)
(***************************************************************************)
\* The arguments and the locals of the generator that runs.
Frame ==
    [string |-> string, pos |-> pos, endpos |-> endpos, pc |-> pc, masked |-> masked,
     result |-> result, last_end |-> last_end, it |-> it,
     follow |-> follow, pq |-> pq, indices |-> indices, out |-> out, i |-> i, cur |-> cur,
     index |-> index, hits |-> hits, all_hits |-> all_hits, res |-> res,
     delimiter_matches |-> delimiter_matches, segment_starts |-> segment_starts,
     segment_ends |-> segment_ends, seg |-> seg, inner |-> inner]

\* A generator that has not run a line.
NewFrame(text, from, to) ==
    [string |-> text, pos |-> from, endpos |-> to, pc |-> "begin", masked |-> <<>>,
     result |-> <<>>, last_end |-> 0, it |-> [rest |-> <<>>, raised |-> FALSE],
     follow |-> <<>>, pq |-> <<>>, indices |-> {}, out |-> <<>>, i |-> 1, cur |-> 0,
     index |-> 0, hits |-> <<>>, all_hits |-> <<>>, res |-> <<>>,
     delimiter_matches |-> <<>>, segment_starts |-> <<>>,
     segment_ends |-> <<>>, seg |-> 1, inner |-> [rest |-> <<>>, raised |-> FALSE]]

SetFrame(f) ==
    /\ string' = f.string
    /\ pos' = f.pos
    /\ endpos' = f.endpos
    /\ pc' = f.pc
    /\ masked' = f.masked
    /\ result' = f.result
    /\ last_end' = f.last_end
    /\ it' = f.it
    /\ follow' = f.follow
    /\ pq' = f.pq
    /\ indices' = f.indices
    /\ out' = f.out
    /\ i' = f.i
    /\ cur' = f.cur
    /\ index' = f.index
    /\ hits' = f.hits
    /\ all_hits' = f.all_hits
    /\ res' = f.res
    /\ delimiter_matches' = f.delimiter_matches
    /\ segment_starts' = f.segment_starts
    /\ segment_ends' = f.segment_ends
    /\ seg' = f.seg
    /\ inner' = f.inner

\* Generators that keep the heap and the occupied offsets on the rule: the
\* one resumed finds those the other one left.
SharedLocals(saved, left) == [saved EXCEPT !.pq = left.pq, !.indices = left.indices]

\* What a generator finds when it is resumed: pq, indices and the cursors
\* are locals of its own invocation of _findnext, so it finds them as it
\* left them, whatever the other generator did.
OwnLocals(saved, left) == saved

\* The caller advances the other generator: the one that ran is suspended
\* before its first line, after a pair of the merged stream was handled, or
\* at its end.
Switch ==
    /\ pc \in {"begin", "resume", "done", "raised"}
    /\ peer' = Frame
    /\ SetFrame(OwnLocals(peer, Frame))
    /\ UNCHANGED <<rule, placeholder, query, spanLocals, build, api, value, calls>>

TwoRules ==
    {MatchAny(<<La, Lb>>), MatchAny(<<Lab, Lb>>), MatchAny(<<Lb, Lab>>), MatchAny(<<La, Lempty>>),
     MatchAny(<<Lab, La, Lb>>), MatchSeq(<<La, Lb>>), MatchSeq(<<Lb, La>>)}
TwoRegions == {<<0, MaxLen + 1>>, <<1, MaxLen + 1>>}
PeerTexts == {<<"a", "b">>, <<"b", "a", "b">>, <<"a", "a">>}

InitTwo ==
    /\ rule \in TwoRules
    /\ string \in Texts
    /\ \E rg \in TwoRegions : pos = rg[1] /\ endpos = rg[2]
    /\ placeholder = "."
    /\ pc = "begin"
    /\ Fresh
    /\ NoQuery
    /\ NoBuild
    /\ api = "finditer"
    /\ value = Pending
    /\ calls = <<>>
    /\ \E text \in PeerTexts : peer = NewFrame(text, 0, MaxLen + 1)

NextTwo ==
    \/ Switch
    \/ Begin
    \/ AnySeed
    \/ AnyPop
    \/ AnyReturn
    \/ AnyRefill
    \/ Yield
    \/ SeqBody

SpecTwo == InitTwo /\ [][NextTwo]_vars

IsPrefix(a, b) == Len(a) <= Len(b) /\ \A j \in 1..Len(a) : a[j] = b[j]

\* What the generator f has yielded is what finditer run alone on f's
\* text and region yields, up to where f stands.
AsAlone(f) ==
    /\ IsPrefix(f.res, FindIter(rule, f.string, f.pos, f.endpos).rest)
    /\ f.pc \in {"done", "raised"} => f.res = FindIter(rule, f.string, f.pos, f.endpos).rest
    /\ f.pc = "raised" => FindIter(rule, f.string, f.pos, f.endpos).raised
    /\ f.pc = "done" => ~FindIter(rule, f.string, f.pos, f.endpos).raised

\* C22: two finditer generators on the same rule, advanced in any
\* interleaving, each yield exactly the sequence they yield when run alone,
\* and no step of either modifies the rule.
C22_Interleaved ==
    /\ [](AsAlone(Frame) /\ AsAlone(peer))
    /\ [][rule' = rule]_vars

\* C22 witness: both generators have yielded a match and neither is
\* exhausted, on different texts and with different occupied offsets, and
\* the one that runs is about to be advanced again.
C22_Witness ==
    /\ pc = "resume"
    /\ peer.pc = "resume"
    /\ res # <<>>
    /\ peer.res # <<>>
    /\ string # peer.string
    /\ indices # peer.indices
    /\ Len(FindIter(rule, string, pos, endpos).rest) > Len(res)
    /\ Len(FindIter(rule, peer.string, peer.pos, peer.endpos).rest) > Len(peer.res)

(***************************************************************************)
(* When the union merger marks offsets as occupied, checked under          *)
(* SpecMerge.                                                              *)
(***************************************************************************)
\* The offsets of the matches the merger has yielded.
YieldedOffsets == UNION {Offs(out[j].hit) : j \in 1..Len(out)}

\* C31 (as claimed): the occupied-offset set of a union merger is at every
\* moment the union of the spans of the matches already yielded, and a
\* child match is skipped only when it shares an offset with a match already
\* yielded, never because of a candidate that is queued and not yet yielded.
C31_MarkedAtYield ==
    /\ [](rule.cls \in {"MatchAny", "MatchSeq"} => indices = YieldedOffsets)
    /\ [][AdvanceStep =>
            \A n \in 1..Gone(StepChild) :
                (n < Gone(StepChild) \/ ~Took)
                    => Offs(follow[StepChild].rest[n]) \cap YieldedOffsets # {}]_vars

(***************************************************************************)
(* The segments a SplitMatch runs its content rule on, checked under       *)
(* SpecSplit.                                                              *)
(***************************************************************************)
\* The characters of the text between two offsets.
CharsBetween(from, to) == {x \in 0..(Len(string) - 1) : from <= x /\ x < to}

\* C32 (as claimed): a SplitMatch never runs its content rule on a segment
\* that contains no character of the text, the trailing segment after a
\* delimiter that ends at the end of the text included, and so emits no
\* match from such a segment.
C32_EmptySkipped ==
    [][(rule.cls = "SplitMatch" /\ pc = "segment" /\ pc' = "match")
          => CharsBetween(segment_starts[seg], segment_ends[seg]) # {}]_vars

(***************************************************************************)
(* finditer on rules that carry a mask rule and a deny rule.               *)
(***************************************************************************)
DenyBases ==
    {MatchAny(<<La>>), MatchAny(<<Lb>>), MatchAny(<<La, Lb>>), MatchAny(<<Ldot>>),
     MatchALL(<<Lb, Ldot>>), MatchSeq(<<La, Lb>>)}
DenyOperands == {La, Lb, Lab, Ldot}
DenyRules ==
    {Xor(MatMul(r, m), d) : r \in DenyBases, m \in {La, Lb}, d \in DenyOperands}
        \cup {Xor(MatMulWith(r, m, "b"), d) : r \in DenyBases, m \in {La}, d \in DenyOperands}

InitDeny == InitCall(DenyRules)

NextDeny ==
    \/ Begin
    \/ AnySeed
    \/ AnyPop
    \/ AnyReturn
    \/ AnyRefill
    \/ Yield
    \/ SeqBody
    \/ AllTake
    \/ AllEmit

SpecDeny == InitDeny /\ [][NextDeny]_vars

\* The masked copy Masker.mask makes of the caller's text.
MaskedCopy == Mask(rule.p_mask, Placeholder(rule), string, pos, endpos).val

\* What the deny rule finds in the masked copy and in the caller's text.
DenyInMasked == FindIter(rule.p_deny, MaskedCopy, pos, endpos).rest
DenyInText == FindIter(rule.p_deny, string, pos, endpos).rest

\* C33: finditer masks first, then searches the deny rule in the masked
\* copy, then runs the children: a call past its first step holds the
\* masked copy; it yields nothing when the deny rule has a match in the
\* masked copy, whatever it finds in the caller's text, and a finished call
\* yields what the rule without its deny rule yields when the deny rule has
\* no match in the masked copy, whatever it finds in the caller's text.
C33_MaskThenDeny ==
    (rule.p_mask # MATCH_NONE /\ rule.p_deny # MATCH_NONE /\ pc # "begin") =>
        /\ masked = MaskedCopy
        /\ DenyInMasked # <<>> => (res = <<>> /\ pc = "done")
        /\ (DenyInMasked = <<>> /\ pc \in {"done", "raised"}) =>
              /\ Shape(res) = Shape(Undenied.rest)
              /\ (pc = "raised") = Undenied.raised

\* C33 witness: a finished call that yielded a match although the deny rule
\* has an occurrence in the caller's text, all of whose occurrences the mask
\* replaced.
C33_Witness ==
    /\ rule.p_mask # MATCH_NONE
    /\ rule.p_deny # MATCH_NONE
    /\ pc = "done"
    /\ DenyInText # <<>>
    /\ DenyInMasked = <<>>
    /\ res # <<>>

\* A finished call that yielded nothing because the deny rule matches the
\* placeholder characters, while it has no occurrence in the caller's text
\* and the rule without its deny rule has a match.
DeniedByPlaceholder ==
    /\ rule.p_mask # MATCH_NONE
    /\ rule.p_deny # MATCH_NONE
    /\ pc = "done"
    /\ DenyInText = <<>>
    /\ DenyInMasked # <<>>
    /\ res = <<>>
    /\ Undenied.rest # <<>>

(***************************************************************************)
(* The end of a union merger scan, checked under SpecMerge.                *)
(***************************************************************************)
\* The number of matches the first n children yield on the text.
RECURSIVE ChildMatches(_)
ChildMatches(n) == IF n = 0 THEN 0 ELSE Len(ChildStream(n)) + ChildMatches(n - 1)

\* C34 (as claimed): a union merger scan read to its end ends with the queue
\* empty and every child stream exhausted, and in no other way; no child
\* match is yielded twice; and the matches yielded are at most as many as
\* the matches of all children.
C34_Terminates ==
    rule.cls = "MatchAny" =>
        /\ pc \in {"done", "raised"} =>
              /\ pc = "done"
              /\ pq = <<>>
              /\ \A c \in 1..Len(follow) : follow[c].rest = <<>>
        /\ \A j, k \in 1..Len(out) : j # k => out[j] # out[k]
        /\ Len(out) <= ChildMatches(Len(rule.patterns))

(***************************************************************************)
(* The hits of the composite matches finditer yields.                      *)
(***************************************************************************)
SortedHits(m) ==
    \A j, k \in 1..Len(m.hits) : j < k => HitStart(m.hits[j]) <= HitStart(m.hits[k])

\* C35 (as claimed): in every composite match finditer yields, the hits are
\* sorted by non-decreasing start offset, span(0) is (start of the first
\* hit, end of the last hit), and span(0)[0] <= span(0)[1].
C35_SortedHits ==
    \A r \in 1..Len(res) :
        /\ SortedHits(res[r])
        /\ Start(res[r]) = HitStart(res[r].hits[1])
        /\ End(res[r]) = HitEnd(res[r].hits[Len(res[r].hits)])
        /\ Start(res[r]) <= End(res[r])

(***************************************************************************)
(* What a union merger leaves out, checked under SpecMerge.                *)
(***************************************************************************)
\* Match n of child c was yielded by the merger.
WasYielded(c, n) ==
    \E j \in 1..Len(out) :
        out[j].hit = ChildStream(c)[n] /\ out[j].pattern = rule.patterns[c]

\* C36: when the scan of a union merger has been read to its end, every
\* child match that was not yielded shares a character position with a
\* match that was yielded, and every zero-width child match was yielded.
C36_Maximal ==
    (rule.cls \in {"MatchAny", "MatchSeq"} /\ pc = "done") =>
        \A c \in 1..Len(rule.patterns) : \A n \in 1..Len(ChildStream(c)) :
            /\ WasYielded(c, n)
                  \/ \E j \in 1..Len(out) :
                        Occupies(ChildStream(c)[n]) \cap Occupies(out[j].hit) # {}
            /\ Start(ChildStream(c)[n]) = End(ChildStream(c)[n]) => WasYielded(c, n)

\* C36 witness: a finished scan of a MatchAny that left out a child match
\* and yielded a zero-width match at an offset inside a match of another
\* child.
C36_Witness ==
    /\ rule.cls = "MatchAny"
    /\ pc = "done"
    /\ \E c \in 1..Len(rule.patterns) : \E n \in 1..Len(ChildStream(c)) : ~WasYielded(c, n)
    /\ \E j, k \in 1..Len(out) :
          /\ Start(out[j].hit) = End(out[j].hit)
          /\ Start(out[k].hit) < Start(out[j].hit)
          /\ Start(out[j].hit) < End(out[k].hit)

(***************************************************************************)
(* Chained masks: @ applied to rules that @ returned.                      *)
(***************************************************************************)
\* "r @ other" on any rule built so far, the ones @ returned included.
ChainMatMul ==
    /\ Len(objs) < MaxObjs + 3
    /\ \E n \in DOMAIN objs : \E other \in MatMulOperands(objs) :
          /\ call' = [op |-> "@", self |-> n, args |-> <<other>>]
          /\ SetOutcome(MatMulCall(objs, Ref(n), other))
    /\ UNCHANGED idle

NextChain ==
    \/ MatchAnyCompile
    \/ ChainMatMul

SpecChain == InitBuild /\ [][NextChain]_vars

\* The rule of object n has a mask rule with a placeholder of its own.
HasPlaceholder(heap, n) ==
    /\ heap[n].p_mask.cls = "ref"
    /\ heap[heap[n].p_mask.id].placeholder # ""

\* The operand of @ is a rule or a (rule, placeholder) pair.
MaskOperand(x) ==
    IF x.cls = "tuple" THEN RuleOperand(x.pattern) ELSE RuleOperand(x)

\* The copy of text t that finditer of the rule just built hands to its
\* children.
BuiltMasked(t) ==
    Mask(ToRule(objs, Ref(built)).p_mask, Placeholder(ToRule(objs, Ref(built))),
         t, 0, Len(t)).val

\* The mask rule the rule had before the call, and the offsets of t it
\* matches.
EarlierMask == ToRule(objs, objs[call.self].p_mask)
EarlierOffsets(t) ==
    UNION {Occupies(FindIter(EarlierMask, t, 0, Len(t)).rest[j]) :
              j \in 1..Len(FindIter(EarlierMask, t, 0, Len(t)).rest)}

\* C37 (as claimed): @ applied to a rule whose mask has a placeholder of its
\* own returns a rule, and in the masked copy of that rule the spans of the
\* earlier mask still hold the earlier placeholder.
C37_PlaceholderKept ==
    (call.op = "@" /\ HasPlaceholder(objs, call.self) /\ MaskOperand(call.args[1]))
        => /\ error = ""
           /\ \A t \in Texts : \A x \in EarlierOffsets(t) :
                 BuiltMasked(t)[x + 1] = EarlierMask.placeholder

(***************************************************************************)
(* ComposeMatch.groups, next to group(n).  The hits of the matches queried *)
(* here carry the text they were found in: the text of the composite match *)
(* or the masked copy of it.                                               *)
(***************************************************************************)
\* A str value, so that it can stand next to None in one tuple.
PyStr(s) == [cls |-> "str", s |-> s]

\* re.Match.group(n) for n >= 1: None for a group that took no part.
ReGroup(m, n) ==
    IF m.groups[n].span = <<-1, -1>> THEN None
    ELSE PyStr(Slice(m.string, m.groups[n].span[1], m.groups[n].span[2]))

\* "while True: try: groups += (hit.match.group(index),) except IndexError:
\* break; index += 1"
RECURSIVE GroupsFrom(_, _)
GroupsFrom(m, n) ==
    IF ~HasGroup(m, IntGroup(n)) THEN <<>>
    ELSE <<ReGroup(m, n)>> \o GroupsFrom(m, n + 1)

RECURSIVE GroupsOver(_)
GroupsOver(hs) ==
    IF hs = <<>> THEN <<>> ELSE GroupsFrom(Head(hs).match, 1) \o GroupsOver(Tail(hs))

\* ComposeMatch.groups()
Groups(self) == GroupsOver(self.hits)

\* The hit h, found in the given text.
FoundIn(h, text) ==
    [match |-> [cls |-> "re.Match", start |-> h.match.start, end |-> h.match.end,
                groups |-> h.match.groups, string |-> text],
     offset |-> h.offset]

\* The copy of a text in which the Masker replaced every "a".
MaskedText(text) == Mask(La, ".", text, 0, Len(text)).val

GroupShapeTuples == UNION {[1..n -> GroupShapes] : n \in 1..(MaxHits - 1)}

GroupMatches ==
    {ComposeMatch([n \in 1..Len(t) |-> FoundIn(HitAt(n - 1, t[n]), own)],
                  MATCH_NONE, SpanText(Len(t)))
        : t \in GroupShapeTuples, own \in {SpanText(MaxHits - 1), MaskedText(SpanText(MaxHits - 1))}}

GroupRequests == {IntGroup(n) : n \in 1..(2 * MaxHits - 1)}

\* match.groups()
GroupsCall ==
    /\ pc = "groups"
    /\ ret' = Groups(match)
    /\ pc' = "returned"
    /\ UNCHANGED <<finditerState, build, caller, query, group, start, hit, span>>

InitGroups ==
    /\ match \in GroupMatches
    /\ method \in {"group", "groups"}
    /\ requested \in GroupRequests
    /\ group = requested
    /\ start = 0
    /\ hit = 1
    /\ span = <<>>
    /\ ret = <<>>
    /\ failed = FALSE
    /\ pc = IF method = "groups" THEN "groups" ELSE "call"
    /\ rule = MATCH_NONE
    /\ string = <<>>
    /\ pos = 0
    /\ endpos = 0
    /\ placeholder = "."
    /\ Fresh
    /\ NoBuild
    /\ NoCaller

NextGroups ==
    \/ GroupsCall
    \/ SpanBranch
    \/ SpanWhile
    \/ SpanReturn

SpecGroups == InitGroups /\ [][NextGroups]_vars

\* C38 (as claimed): groups() has one entry for each capture group of each
\* hit, and group(n) returns entry n of groups() for every n from 1 to
\* len(groups()), also when the hits were found in a masked copy and when a
\* group took no part in the match.
C38_GroupsAgree ==
    /\ (pc = "returned" /\ method = "groups") => Len(ret) = TotalGroups(match)
    /\ (Finished /\ method = "group" /\ requested.v \in 1..Len(Groups(match)))
          => (pc = "returned" /\ PyStr(ret) = Groups(match)[requested.v])

\* The same for the groups that took part in matches found in the text of
\* the composite match itself.
GroupsAgreeUnmasked ==
    (Finished /\ method = "group" /\ requested.v \in 1..Len(Groups(match))
       /\ Groups(match)[requested.v] # None
       /\ \A n \in 1..Len(match.hits) : Slice(match.hits[n].match.string, 0, Len(match.string)) = match.string)
          => (pc = "returned" /\ PyStr(ret) = Groups(match)[requested.v])

(***************************************************************************)
(* The composites of one MatchSeq.finditer call, one against the next.     *)
(***************************************************************************)
\* The composites from the r-th on are built from merged-stream entries at
\* places from..Len(out), each composite from places behind those of the
\* composite before it.
RECURSIVE Placed(_, _)
Placed(r, from) ==
    IF r > Len(res) THEN TRUE
    ELSE \E js \in [1..Len(rule.patterns) -> from..Len(out)] :
            /\ \A k \in 1..(Len(rule.patterns) - 1) : js[k] < js[k + 1]
            /\ res[r].hits = Contributed(js, Len(rule.patterns))
            /\ Placed(r + 1, js[Len(rule.patterns)] + 1)

\* Every hit of a composite starts no later than every hit of the next.
StartsInOrder ==
    \A r \in 1..(Len(res) - 1) :
        \A a \in 1..Len(res[r].hits) : \A b \in 1..Len(res[r + 1].hits) :
            HitStart(res[r].hits[a]) <= HitStart(res[r + 1].hits[b])

\* "index = 0; hits = []" after the yield of a composite.
ResetAfterEmit ==
    (rule.cls = "MatchSeq" /\ Len(res') > Len(res)) => (index' = 0 /\ hits' = <<>>)

\* C39 (as claimed): the composites one MatchSeq.finditer call yields are
\* built from disjoint stretches of the merged stream, each behind the one
\* before it, every hit of a composite starts no later than every hit of
\* the next composite, and after a composite is yielded the expected-child
\* index is 0 and the list of pending hits is empty.
C39_OrderedDisjoint ==
    /\ [](rule.cls = "MatchSeq" => (Placed(1, 1) /\ StartsInOrder))
    /\ [][ResetAfterEmit]_vars

\* The part of C39 about the merged stream and the reset.
SeqStretches ==
    /\ [](rule.cls = "MatchSeq" => Placed(1, 1))
    /\ [][ResetAfterEmit]_vars

\* The start offsets are in order when every child is a compiled expression.
StartsInOrderPrimitive ==
    (rule.cls = "MatchSeq" /\ Primitive(rule.patterns)) => StartsInOrder

====
